---- MODULE Spec2Model ----
(***************************************************************************)
(* Google Maps Platform tool adapters: 25 executeFunction bodies, each     *)
(* building one HTTP request from its argument mapping and the API key of  *)
(* the process environment, issuing it with fetch, and turning the reply   *)
(* into a result (payload, error envelope or thrown error).                *)
(***************************************************************************)
EXTENDS Integers, Sequences, FiniteSets, TLC

VARIABLES env, inv, tools

vars == <<env, inv, tools>>

(***************************************************************************)
(* Bounds of the model.                                                    *)
(***************************************************************************)
MaxOptional == 1
MaxMissing == 1

(***************************************************************************)
(* JavaScript values.  Every value is a record of the same shape: t is the *)
(* typeof tag, n the number in tenths (or 0/1 for a boolean), s the string *)
(* (or the bytes of a buffer, or the message of an Error), f the own       *)
(* properties of an object or the items of an array, in insertion order.   *)
(***************************************************************************)
Undef == [t |-> "undefined", n |-> 0, s |-> "", f |-> <<>>]
Null == [t |-> "null", n |-> 0, s |-> "", f |-> <<>>]
NumT(k) == [t |-> "number", n |-> k, s |-> "", f |-> <<>>]
Num(k) == NumT(10 * k)
Str(x) == [t |-> "string", n |-> 0, s |-> x, f |-> <<>>]
Bool(b) == [t |-> "boolean", n |-> IF b THEN 1 ELSE 0, s |-> "", f |-> <<>>]
Fld(k, v) == [k |-> k, v |-> v]
Obj(fields) == [t |-> "object", n |-> 0, s |-> "", f |-> fields]
Arr(items) == [t |-> "array", n |-> 0, s |-> "", f |-> [i \in 1..Len(items) |-> Fld("", items[i])]]
Buf(bytes) == [t |-> "buffer", n |-> 0, s |-> bytes, f |-> <<>>]
Err(msg) == [t |-> "error", n |-> 0, s |-> msg, f |-> <<>>]

\* a test that takes every defined value for truthy: x !== undefined
TruthyWhenDefined(v) == v.t # "undefined"

\* if (v): JavaScript truthiness
Truthy(v) ==
  CASE v.t = "undefined" -> FALSE
    [] v.t = "null" -> FALSE
    [] v.t = "number" -> v.n # 0
    [] v.t = "boolean" -> v.n = 1
    [] v.t = "string" -> v.s # ""
    [] OTHER -> TRUE

\* a default taken whenever the value is falsy: the v || d idiom
DefaultWhenFalsy(v, d) == IF Truthy(v) THEN v ELSE d

\* parameter = default: the default applies when the argument is undefined
Default(v, d) == IF v = Undef THEN d ELSE v

\* property read obj.name; undefined when the property is missing
RECURSIVE FieldAt(_, _, _)
FieldAt(fields, name, i) ==
  IF i > Len(fields) THEN Undef
  ELSE IF fields[i].k = name THEN fields[i].v
  ELSE FieldAt(fields, name, i + 1)

GetProp(o, name) == IF o.t = "object" THEN FieldAt(o.f, name, 1) ELSE Undef

\* a property read throws a TypeError on undefined and on null
ReadThrows(o) == o.t \in {"undefined", "null"}

Digit(d) == SubSeq("0123456789", d + 1, d + 1)

RECURSIVE NatStr(_)
NatStr(k) == IF k < 10 THEN Digit(k) ELSE NatStr(k \div 10) \o Digit(k % 10)

\* Number.prototype.toString for a non-negative number held in tenths
NumStr(k) == IF k % 10 = 0 THEN NatStr(k \div 10) ELSE NatStr(k \div 10) \o "." \o Digit(k % 10)

RECURSIVE JoinItems(_, _)
\* String(v), as applied by template literals and URLSearchParams.append
ToStr(v) ==
  CASE v.t = "undefined" -> "undefined"
    [] v.t = "null" -> "null"
    [] v.t = "number" -> NumStr(v.n)
    [] v.t = "boolean" -> IF v.n = 1 THEN "true" ELSE "false"
    [] v.t = "string" -> v.s
    [] v.t = "array" -> JoinItems(v.f, 1)
    [] v.t = "error" -> "Error: " \o v.s
    [] v.t = "buffer" -> v.s
    [] OTHER -> "[object Object]"

JoinItems(items, i) ==
  IF i > Len(items) THEN ""
  ELSE (IF i > 1 THEN "," ELSE "")
       \o (IF items[i].v.t \in {"undefined", "null"} THEN "" ELSE ToStr(items[i].v))
       \o JoinItems(items, i + 1)

RECURSIVE StringifyFields(_, _, _, _)
RECURSIVE StringifyItems(_, _, _)
\* JSON.stringify(v, null, sp): sp = "" is the compact form
StringifySp(v, sp) ==
  CASE v.t = "null" -> "null"
    [] v.t = "number" -> NumStr(v.n)
    [] v.t = "boolean" -> IF v.n = 1 THEN "true" ELSE "false"
    [] v.t = "string" -> "\"" \o v.s \o "\""
    [] v.t = "array" -> "[" \o StringifyItems(v.f, 1, sp) \o "]"
    [] v.t = "object" -> "{" \o StringifyFields(v.f, 1, TRUE, sp) \o "}"
    [] OTHER -> "{}"

\* properties whose value is undefined are left out
StringifyFields(fields, i, first, sp) ==
  IF i > Len(fields) THEN ""
  ELSE IF fields[i].v.t = "undefined" THEN StringifyFields(fields, i + 1, first, sp)
  ELSE (IF first THEN "" ELSE "," \o sp)
       \o "\"" \o fields[i].k \o "\":" \o sp \o StringifySp(fields[i].v, sp)
       \o StringifyFields(fields, i + 1, FALSE, sp)

\* an undefined array item is written as null
StringifyItems(items, i, sp) ==
  IF i > Len(items) THEN ""
  ELSE (IF i > 1 THEN "," \o sp ELSE "")
       \o (IF items[i].v.t = "undefined" THEN "null" ELSE StringifySp(items[i].v, sp))
       \o StringifyItems(items, i + 1, sp)

Stringify(v) == StringifySp(v, "")

\* x occurs in s
Contains(s, x) == \E i \in 1..(Len(s) - Len(x) + 1) : SubSeq(s, i, i + Len(x) - 1) = x

(***************************************************************************)
(* URL construction.                                                       *)
(***************************************************************************)
\* application/x-www-form-urlencoded byte serializer, one character
EncChar(c) ==
  CASE c = " " -> "+"
    [] c = "&" -> "%26"
    [] c = "=" -> "%3D"
    [] c = "?" -> "%3F"
    [] c = "," -> "%2C"
    [] c = ":" -> "%3A"
    [] c = "/" -> "%2F"
    [] c = "[" -> "%5B"
    [] c = "]" -> "%5D"
    [] OTHER -> c

RECURSIVE EncRange(_, _, _)
EncRange(s, lo, hi) ==
  IF lo > hi THEN ""
  ELSE IF lo = hi THEN EncChar(SubSeq(s, lo, lo))
  ELSE LET mid == (lo + hi) \div 2
       IN EncRange(s, lo, mid) \o EncRange(s, mid + 1, hi)

Enc(s) == EncRange(s, 1, Len(s))

RECURSIVE ParamsFrom(_, _)
ParamsFrom(params, i) ==
  IF i > Len(params) THEN ""
  ELSE (IF i > 1 THEN "&" ELSE "")
       \o Enc(params[i].k) \o "=" \o Enc(params[i].v)
       \o ParamsFrom(params, i + 1)

\* URLSearchParams.prototype.toString
ParamsToString(params) == ParamsFrom(params, 1)

\* URL.prototype.toString of new URL(base) after searchParams.append calls
UrlToString(base, params) ==
  IF params = <<>> THEN base ELSE base \o "?" \o ParamsToString(params)

RECURSIVE SpacesRange(_, _, _)
SpacesRange(s, lo, hi) ==
  IF lo > hi THEN ""
  ELSE IF lo = hi THEN (IF SubSeq(s, lo, lo) = " " THEN "%20" ELSE SubSeq(s, lo, lo))
  ELSE LET mid == (lo + hi) \div 2
       IN SpacesRange(s, lo, mid) \o SpacesRange(s, mid + 1, hi)

\* URL parsing of a string: a space is percent-encoded
ParseUrl(s) == SpacesRange(s, 1, Len(s))

\* positions of character c in s
Positions(s, c) == {i \in 1..Len(s) : SubSeq(s, i, i) = c}

\* the k-th smallest member of a set of numbers
Nth(S, k) == CHOOSE x \in S : Cardinality({y \in S : y < x}) = k - 1

\* percent-decoding of one escape of the form serializer
DecEscape(e) ==
  CASE e = "%26" -> "&"
    [] e = "%3D" -> "="
    [] e = "%3F" -> "?"
    [] e = "%2C" -> ","
    [] e = "%3A" -> ":"
    [] e = "%2F" -> "/"
    [] e = "%5B" -> "["
    [] e = "%5D" -> "]"
    [] e = "%20" -> " "
    [] OTHER -> e

RECURSIVE DecFrom(_, _)
DecFrom(s, i) ==
  IF i > Len(s) THEN ""
  ELSE IF SubSeq(s, i, i) = "+" THEN " " \o DecFrom(s, i + 1)
  ELSE IF SubSeq(s, i, i) = "%" /\ i + 2 <= Len(s)
       THEN DecEscape(SubSeq(s, i, i + 2)) \o DecFrom(s, i + 3)
  ELSE SubSeq(s, i, i) \o DecFrom(s, i + 1)

\* application/x-www-form-urlencoded decoding of a name or a value
Dec(s) == DecFrom(s, 1)

\* the query of a URL string: what follows its first "?"
QueryOf(url) ==
  LET marks == Positions(url, "?")
  IN IF marks = {} THEN "" ELSE SubSeq(url, Nth(marks, 1) + 1, Len(url))

\* one name=value part of a query: split at its first "="
QueryPair(part) ==
  LET eqs == Positions(part, "=")
  IN IF eqs = {} THEN Fld(Dec(part), "")
     ELSE Fld(Dec(SubSeq(part, 1, Nth(eqs, 1) - 1)),
              Dec(SubSeq(part, Nth(eqs, 1) + 1, Len(part))))

\* the query parameters a server parses from a URL string, in order
QueryParams(url) ==
  LET q == QueryOf(url)
      amps == Positions(q, "&")
      n == Cardinality(amps) + 1
      start(k) == IF k = 1 THEN 1 ELSE Nth(amps, k - 1) + 1
      stop(k) == IF k = n THEN Len(q) ELSE Nth(amps, k) - 1
  IN IF q = "" THEN <<>> ELSE [k \in 1..n |-> QueryPair(SubSeq(q, start(k), stop(k)))]

\* url.searchParams.append(name, value): the value is converted with String
Q(name, v) == <<Fld(name, ToStr(v))>>

\* an append that ignores the truthiness test
QIfAlways(name, v) == Q(name, v)

\* if (v) url.searchParams.append(name, v)
QIf(name, v) == IF Truthy(v) THEN Q(name, v) ELSE <<>>

\* a destructuring that yields null for an omitted argument
ArgOrNull(args, name) == IF name \in DOMAIN args THEN args[name] ELSE Null

\* destructuring of the argument object
Arg(args, name) == IF name \in DOMAIN args THEN args[name] ELSE Undef

(***************************************************************************)
(* The synchronous part of an invocation: either a request handed to       *)
(* fetch, or an exception thrown before fetch is reached, outside or       *)
(* inside the try block.                                                   *)
(***************************************************************************)
NoRequest == [method |-> "", url |-> "", headers |-> <<>>, body |-> Undef]

Request(method, url, headers, body) ==
  [method |-> method, url |-> ParseUrl(url), headers |-> headers, body |-> body]

Built(req) == [thrown |-> "none", err |-> Undef, req |-> req]
ThrownOutsideTry(e) == [thrown |-> "outside", err |-> e, req |-> NoRequest]
ThrownInTry(e) == [thrown |-> "inside", err |-> e, req |-> NoRequest]

TypeErrorRead(o, name) ==
  Err("Cannot read properties of " \o ToStr(o) \o " (reading '" \o name \o "')")

\* a read-style request sent as POST
GetAsPost(url, headers) == Built(Request("POST", url, headers, Undef))

Get(url, headers) == Built(Request("GET", url, headers, Undef))
Post(url, headers, body) == Built(Request("POST", url, headers, Str(Stringify(body))))

AcceptJson == <<Fld("Accept", "application/json")>>
ContentJson == <<Fld("Content-Type", "application/json")>>
AcceptImage == <<Fld("Accept", "image/*")>>

(***************************************************************************)
(* The adapters: the code of each executeFunction up to its fetch call.    *)
(***************************************************************************)
\* a get_route that forwards the origin and destination objects whole
get_route_whole_objects(args, apiKey) ==
  LET origin == Arg(args, "origin")
      destination == Arg(args, "destination")
  IN IF ReadThrows(origin) THEN ThrownOutsideTry(TypeErrorRead(origin, "address"))
     ELSE IF ReadThrows(destination) THEN ThrownOutsideTry(TypeErrorRead(destination, "address"))
     ELSE Post("https://routes.googleapis.com" \o "/directions/v2:computeRoutes",
               <<Fld("X-Goog-FieldMask", "*"),
                 Fld("Content-Type", "application/json"),
                 Fld("X-Goog-Api-Key", ToStr(apiKey))>>,
               Obj(<<Fld("origin", origin), Fld("destination", destination)>>))

get_route(args, apiKey) ==
  LET origin == Arg(args, "origin")
      destination == Arg(args, "destination")
  IN IF ReadThrows(origin) THEN ThrownOutsideTry(TypeErrorRead(origin, "address"))
     ELSE IF ReadThrows(destination) THEN ThrownOutsideTry(TypeErrorRead(destination, "address"))
     ELSE Post("https://routes.googleapis.com" \o "/directions/v2:computeRoutes",
               <<Fld("X-Goog-FieldMask", "*"),
                 Fld("Content-Type", "application/json"),
                 Fld("X-Goog-Api-Key", ToStr(apiKey))>>,
               Obj(<<Fld("origin", Obj(<<Fld("address", GetProp(origin, "address"))>>)),
                     Fld("destination", Obj(<<Fld("address", GetProp(destination, "address"))>>))>>))

get_building_insights(args, apiKey) ==
  Get(UrlToString("https://solar.googleapis.com" \o "/v1/buildingInsights:findClosest",
                  Q("location.latitude", Arg(args, "latitude"))
                  \o Q("location.longitude", Arg(args, "longitude"))
                  \o Q("requiredQuality", Str("HIGH"))
                  \o Q("key", apiKey)),
      <<>>)

render_video(args, apiKey) ==
  Post("https://www.googleapis.com" \o "/v1/videos:renderVideo?key=" \o ToStr(apiKey),
       ContentJson,
       Obj(<<Fld("address", Arg(args, "address"))>>))

text_search_places(args, apiKey) ==
  Post("https://places.googleapis.com/v1/places:searchText",
       <<Fld("Content-Type", "application/json"),
         Fld("X-Goog-FieldMask", "*"),
         Fld("X-Goog-Api-Key", ToStr(apiKey))>>,
       Obj(<<Fld("textQuery", Arg(args, "textQuery")),
             Fld("includedType", Arg(args, "includedType")),
             Fld("languageCode", Arg(args, "languageCode")),
             Fld("locationBias", Arg(args, "locationBias")),
             Fld("locationRestriction", Arg(args, "locationRestriction")),
             Fld("evOptions", Arg(args, "evOptions")),
             Fld("minRating", Arg(args, "minRating")),
             Fld("openNow", Arg(args, "openNow")),
             Fld("pageSize", Arg(args, "pageSize")),
             Fld("pageToken", Arg(args, "pageToken")),
             Fld("priceLevels", Arg(args, "priceLevels")),
             Fld("rankPreference", Arg(args, "rankPreference")),
             Fld("regionCode", Arg(args, "regionCode")),
             Fld("strictTypeFiltering", Arg(args, "strictTypeFiltering"))>>))

get_video(args, apiKey) ==
  Get(UrlToString("https://aerialview.googleapis.com/v1/videos:lookupVideo",
                  Q("videoId", Arg(args, "videoId")))
      \o "?key=" \o ToStr(apiKey),
      ContentJson)

validate_address(args, apiKey) ==
  Post("https://www.googleapis.com" \o "/addressvalidation.googleapis.com/v1:validateAddress?key="
       \o ToStr(apiKey),
       ContentJson,
       Obj(<<Fld("address", Obj(<<Fld("regionCode", Arg(args, "regionCode")),
                                  Fld("locality", Arg(args, "locality")),
                                  Fld("addressLines", Arg(args, "addressLines"))>>))>>))

\* a geocode_address that appends every parameter, supplied or not
geocode_address_unfiltered(args, apiKey) ==
  LET language == Default(Arg(args, "language"), Str("en"))
      region == Default(Arg(args, "region"), Str("en"))
  IN Get(UrlToString("https://www.googleapis.com" \o "/maps/api/geocode/json",
                     Q("address", Arg(args, "address"))
                     \o Q("bounds", Arg(args, "bounds"))
                     \o Q("components", Arg(args, "components"))
                     \o Q("latlng", Arg(args, "latlng"))
                     \o Q("place_id", Arg(args, "place_id"))
                     \o Q("language", language)
                     \o Q("region", region)
                     \o Q("key", apiKey)),
         AcceptJson)

geocode_address(args, apiKey) ==
  LET language == Default(Arg(args, "language"), Str("en"))
      region == Default(Arg(args, "region"), Str("en"))
  IN Get(UrlToString("https://www.googleapis.com" \o "/maps/api/geocode/json",
                     Q("address", Arg(args, "address"))
                     \o QIf("bounds", Arg(args, "bounds"))
                     \o QIf("components", Arg(args, "components"))
                     \o QIf("latlng", Arg(args, "latlng"))
                     \o QIf("place_id", Arg(args, "place_id"))
                     \o Q("language", language)
                     \o Q("region", region)
                     \o Q("key", apiKey)),
         AcceptJson)

compute_insights_places_aggregate(args, apiKey) ==
  Post("https://areainsights.googleapis.com/v1:computeInsights",
       <<Fld("X-Goog-Api-Key", ToStr(apiKey)),
         Fld("Content-Type", "application/json")>>,
       Obj(<<Fld("insights", Arg(args, "insights")),
             Fld("filter", Arg(args, "filter"))>>))

query_autocomplete(args, apiKey) ==
  LET language == Default(Arg(args, "language"), Str("en"))
  IN Get(UrlToString("https://www.googleapis.com" \o "/maps/api/place/queryautocomplete/json",
                     Q("input", Arg(args, "input"))
                     \o QIf("offset", Arg(args, "offset"))
                     \o QIf("location", Arg(args, "location"))
                     \o QIf("radius", Arg(args, "radius"))
                     \o Q("language", language)
                     \o Q("key", apiKey)),
         AcceptJson)

provide_validation_feedback(args, apiKey) ==
  Post("https://addressvalidation.googleapis.com" \o "/v1:provideValidationFeedback?key="
       \o ToStr(apiKey),
       ContentJson,
       Obj(<<Fld("conclusion", Arg(args, "conclusion")),
             Fld("responseId", Arg(args, "responseId"))>>))

get_directions(args, apiKey) ==
  LET mode == Default(Arg(args, "mode"), Str("driving"))
      language == Default(Arg(args, "language"), Str("en"))
      units == Default(Arg(args, "units"), Str("metric"))
      alternatives == Default(Arg(args, "alternatives"), Bool(FALSE))
      traffic_model == Default(Arg(args, "traffic_model"), Str("best_guess"))
  IN Get(UrlToString("https://www.googleapis.com" \o "/maps/api/directions/json",
                     Q("origin", Arg(args, "origin"))
                     \o Q("destination", Arg(args, "destination"))
                     \o Q("mode", mode)
                     \o Q("language", language)
                     \o Q("units", units)
                     \o QIf("departure_time", Arg(args, "departure_time"))
                     \o QIf("arrival_time", Arg(args, "arrival_time"))
                     \o QIf("alternatives", alternatives)
                     \o QIf("avoid", Arg(args, "avoid"))
                     \o QIf("waypoints", Arg(args, "waypoints"))
                     \o QIf("region", Arg(args, "region"))
                     \o QIf("traffic_model", traffic_model)
                     \o Q("key", apiKey)),
         AcceptJson)

\* a get_street_view that appends pitch and return_error_code without a test
get_street_view_sends_defaults(args, apiKey) ==
  LET fov == Default(Arg(args, "fov"), Num(90))
      pitch == Default(Arg(args, "pitch"), Num(0))
      radius == Default(Arg(args, "radius"), Num(50))
      return_error_code == Default(Arg(args, "return_error_code"), Bool(FALSE))
  IN Get(UrlToString("https://www.googleapis.com" \o "/maps/api/streetview",
                     Q("size", Arg(args, "size"))
                     \o QIf("fov", fov)
                     \o QIf("heading", Arg(args, "heading"))
                     \o QIf("location", Arg(args, "location"))
                     \o QIf("pano", Arg(args, "pano"))
                     \o Q("pitch", pitch)
                     \o QIf("radius", radius)
                     \o Q("return_error_code", return_error_code)
                     \o QIf("signature", Arg(args, "signature"))
                     \o QIf("source", Arg(args, "source"))
                     \o Q("key", apiKey)),
         AcceptImage)

get_street_view(args, apiKey) ==
  LET fov == Default(Arg(args, "fov"), Num(90))
      pitch == Default(Arg(args, "pitch"), Num(0))
      radius == Default(Arg(args, "radius"), Num(50))
      return_error_code == Default(Arg(args, "return_error_code"), Bool(FALSE))
  IN Get(UrlToString("https://www.googleapis.com" \o "/maps/api/streetview",
                     Q("size", Arg(args, "size"))
                     \o QIf("fov", fov)
                     \o QIf("heading", Arg(args, "heading"))
                     \o QIf("location", Arg(args, "location"))
                     \o QIf("pano", Arg(args, "pano"))
                     \o QIf("pitch", pitch)
                     \o QIf("radius", radius)
                     \o QIf("return_error_code", return_error_code)
                     \o QIf("signature", Arg(args, "signature"))
                     \o QIf("source", Arg(args, "source"))
                     \o Q("key", apiKey)),
         AcceptImage)

get_route_matrix(args, apiKey) ==
  LET travelMode == Default(Arg(args, "travelMode"), Str("DRIVE"))
      routingPreference == Default(Arg(args, "routingPreference"), Str("TRAFFIC_AWARE"))
  IN Post("https://routes.googleapis.com" \o "/distanceMatrix/v2:computeRouteMatrix",
          <<Fld("X-Goog-FieldMask", "*"),
            Fld("Content-Type", "application/json"),
            Fld("X-Goog-Api-Key", ToStr(apiKey))>>,
          Obj(<<Fld("origins", Arg(args, "origins")),
                Fld("destinations", Arg(args, "destinations")),
                Fld("travelMode", travelMode),
                Fld("routingPreference", routingPreference)>>))

get_place_photo(args, apiKey) ==
  LET maxheight == Arg(args, "maxheight")
      maxwidth == Arg(args, "maxwidth")
  IN Get(UrlToString("https://maps.googleapis.com/maps/api/place/photo",
                     Q("photo_reference", Arg(args, "photo_reference"))
                     \o QIf("maxheight", maxheight)
                     \o QIf("maxwidth", maxwidth)
                     \o Q("key", apiKey)),
         AcceptImage)

get_heatmap_tiles(args, apiKey) ==
  Get("https://pollen.googleapis.com" \o "/v1/mapTypes/" \o ToStr(Arg(args, "mapType"))
      \o "/heatmapTiles/" \o ToStr(Arg(args, "zoom"))
      \o "/" \o ToStr(Arg(args, "x"))
      \o "/" \o ToStr(Arg(args, "y"))
      \o "?key=" \o ToStr(apiKey),
      <<>>)

compute_insights_area(args, apiKey) ==
  Post("https://areainsights.googleapis.com" \o "/v1:computeInsights",
       <<Fld("Content-Type", "application/json"),
         Fld("X-Goog-Api-Key", ToStr(apiKey))>>,
       Obj(<<Fld("insights", Arg(args, "insights")),
             Fld("filter", Arg(args, "filter"))>>))

geolocate(args, apiKey) ==
  LET considerIp == Default(Arg(args, "considerIp"), Bool(FALSE))
  IN Post("https://www.googleapis.com" \o "/geolocation/v1/geolocate?key=" \o ToStr(apiKey),
          <<Fld("Content-Type", "application/json"),
            Fld("Accept", "application/json")>>,
          Obj(<<Fld("considerIp", considerIp),
                Fld("cellTowers", Arg(args, "cellTowers")),
                Fld("wifiAccessPoints", Arg(args, "wifiAccessPoints"))>>))

get_hourly_weather(args, apiKey) ==
  LET unitsSystem == Default(Arg(args, "unitsSystem"), Str("METRIC"))
      pageSize == Default(Arg(args, "pageSize"), Num(24))
      hours == Default(Arg(args, "hours"), Num(24))
      languageCode == Default(Arg(args, "languageCode"), Str("en"))
  IN IF ReadThrows(pageSize) THEN ThrownInTry(TypeErrorRead(pageSize, "toString"))
     ELSE IF ReadThrows(hours) THEN ThrownInTry(TypeErrorRead(hours, "toString"))
     ELSE Get(UrlToString("https://weather.googleapis.com" \o "/v1/history/hours:lookup",
                          Q("location.latitude", Arg(args, "latitude"))
                          \o Q("location.longitude", Arg(args, "longitude"))
                          \o Q("unitsSystem", unitsSystem)
                          \o Q("pageSize", pageSize)
                          \o QIf("pageToken", Arg(args, "pageToken"))
                          \o Q("hours", hours)
                          \o Q("languageCode", languageCode)
                          \o Q("key", apiKey)),
              ContentJson)

get_street_view_metadata(args, apiKey) ==
  LET radius == Default(Arg(args, "radius"), Num(50))
      return_error_code == Default(Arg(args, "return_error_code"), Bool(FALSE))
  IN Get(UrlToString("https://www.googleapis.com" \o "/maps/api/streetview/metadata",
                     Q("location", Arg(args, "location"))
                     \o QIf("heading", Arg(args, "heading"))
                     \o QIf("pano", Arg(args, "pano"))
                     \o QIf("pitch", Arg(args, "pitch"))
                     \o QIf("radius", radius)
                     \o QIf("return_error_code", return_error_code)
                     \o QIf("signature", Arg(args, "signature"))
                     \o QIf("size", Arg(args, "size"))
                     \o QIf("source", Arg(args, "source"))
                     \o Q("key", apiKey)),
         AcceptJson)

get_data_layers(args, apiKey) ==
  LET radiusMeters == Default(Arg(args, "radiusMeters"), Num(100))
      view == Default(Arg(args, "view"), Str("FULL_LAYERS"))
      requiredQuality == Default(Arg(args, "requiredQuality"), Str("HIGH"))
      pixelSizeMeters == Default(Arg(args, "pixelSizeMeters"), NumT(5))
  IN IF ReadThrows(radiusMeters) THEN ThrownInTry(TypeErrorRead(radiusMeters, "toString"))
     ELSE IF ReadThrows(pixelSizeMeters) THEN ThrownInTry(TypeErrorRead(pixelSizeMeters, "toString"))
     ELSE Get(UrlToString("https://solar.googleapis.com" \o "/v1/dataLayers:get",
                          Q("location.latitude", Arg(args, "latitude"))
                          \o Q("location.longitude", Arg(args, "longitude"))
                          \o Q("radiusMeters", radiusMeters)
                          \o Q("view", view)
                          \o Q("requiredQuality", requiredQuality)
                          \o Q("pixelSizeMeters", pixelSizeMeters)
                          \o Q("key", apiKey)),
              <<>>)

\* the part of a URL string before its first "?": url.search is assigned afterwards
BeforeQuery(s) ==
  LET marks == {i \in 1..Len(s) : SubSeq(s, i, i) = "?"}
  IN IF marks = {} THEN s
     ELSE SubSeq(s, 1, (CHOOSE i \in marks : \A j \in marks : i <= j) - 1)

\* a get_place_details that also writes the key into the query
get_place_details_key_in_query(args, apiKey) ==
  Get(UrlToString(BeforeQuery("https://places.googleapis.com/v1/places" \o "/"
                              \o ToStr(Arg(args, "placeId"))),
                  QIf("languageCode", Arg(args, "languageCode"))
                  \o QIf("regionCode", Arg(args, "regionCode"))
                  \o QIf("sessionToken", Arg(args, "sessionToken"))
                  \o Q("key", apiKey)),
      <<Fld("X-Goog-Api-Key", ToStr(apiKey)),
        Fld("X-Goog-FieldMask", "*"),
        Fld("Content-Type", "application/json")>>)

get_place_details(args, apiKey) ==
  Get(UrlToString(BeforeQuery("https://places.googleapis.com/v1/places" \o "/"
                              \o ToStr(Arg(args, "placeId"))),
                  QIf("languageCode", Arg(args, "languageCode"))
                  \o QIf("regionCode", Arg(args, "regionCode"))
                  \o QIf("sessionToken", Arg(args, "sessionToken"))),
      <<Fld("X-Goog-Api-Key", ToStr(apiKey)),
        Fld("X-Goog-FieldMask", "*"),
        Fld("Content-Type", "application/json")>>)

get_elevation(args, apiKey) ==
  Get(UrlToString("https://maps.googleapis.com/maps/api/elevation/json",
                  Q("locations", Arg(args, "locations"))
                  \o QIf("path", Arg(args, "path"))
                  \o QIf("samples", Arg(args, "samples"))
                  \o Q("key", apiKey)),
      AcceptJson)

distance_matrix(args, apiKey) ==
  LET mode == Default(Arg(args, "mode"), Str("driving"))
      units == Default(Arg(args, "units"), Str("metric"))
      language == Default(Arg(args, "language"), Str("en"))
      region == Default(Arg(args, "region"), Str("en"))
      traffic_model == Default(Arg(args, "traffic_model"), Str("best_guess"))
  IN Get(UrlToString("https://maps.googleapis.com/maps/api/distancematrix/json",
                     Q("origins", Arg(args, "origins"))
                     \o Q("destinations", Arg(args, "destinations"))
                     \o Q("mode", mode)
                     \o Q("units", units)
                     \o Q("language", language)
                     \o QIf("departure_time", Arg(args, "departure_time"))
                     \o QIf("arrival_time", Arg(args, "arrival_time"))
                     \o QIf("avoid", Arg(args, "avoid"))
                     \o QIf("region", region)
                     \o QIf("traffic_model", traffic_model)
                     \o QIf("transit_mode", Arg(args, "transit_mode"))
                     \o QIf("transit_routing_preference", Arg(args, "transit_routing_preference"))
                     \o Q("key", apiKey)),
         AcceptJson)

autocomplete_places(args, apiKey) ==
  LET language == Default(Arg(args, "language"), Str("en"))
      region == Default(Arg(args, "region"), Str("en"))
  IN Get(UrlToString("https://maps.googleapis.com/maps/api/place/autocomplete/json",
                     Q("input", Arg(args, "input"))
                     \o QIf("sessiontoken", Arg(args, "sessiontoken"))
                     \o QIf("components", Arg(args, "components"))
                     \o QIf("strictbounds", Arg(args, "strictbounds"))
                     \o QIf("offset", Arg(args, "offset"))
                     \o QIf("origin", Arg(args, "origin"))
                     \o QIf("location", Arg(args, "location"))
                     \o QIf("radius", Arg(args, "radius"))
                     \o QIf("types", Arg(args, "types"))
                     \o QIf("language", language)
                     \o QIf("region", region)
                     \o Q("key", apiKey)),
         AcceptJson)

get_forecast(args, apiKey) ==
  LET days == Arg(args, "days")
  IN IF ReadThrows(days) THEN ThrownInTry(TypeErrorRead(days, "toString"))
     ELSE Get(UrlToString("https://pollen.googleapis.com" \o "/v1/forecast:lookup",
                          Q("location.longitude", Arg(args, "longitude"))
                          \o Q("location.latitude", Arg(args, "latitude"))
                          \o Q("days", days)
                          \o QIf("key", apiKey)),
              ContentJson)

(***************************************************************************)
(* Tables over the adapters.                                               *)
(***************************************************************************)
Adapters ==
  {"get_route",
   "get_building_insights",
   "render_video",
   "text_search_places",
   "get_video",
   "validate_address",
   "geocode_address",
   "compute_insights_places_aggregate",
   "query_autocomplete",
   "provide_validation_feedback",
   "get_directions",
   "get_street_view",
   "get_route_matrix",
   "get_place_photo",
   "get_heatmap_tiles",
   "compute_insights_area",
   "geolocate",
   "get_hourly_weather",
   "get_street_view_metadata",
   "get_data_layers",
   "get_place_details",
   "get_elevation",
   "distance_matrix",
   "autocomplete_places",
   "get_forecast"}

\* the statements of executeFunction that run before the first await
BuildRequest(a, args, apiKey) ==
  CASE a = "get_route" -> get_route(args, apiKey)
    [] a = "get_building_insights" -> get_building_insights(args, apiKey)
    [] a = "render_video" -> render_video(args, apiKey)
    [] a = "text_search_places" -> text_search_places(args, apiKey)
    [] a = "get_video" -> get_video(args, apiKey)
    [] a = "validate_address" -> validate_address(args, apiKey)
    [] a = "geocode_address" -> geocode_address(args, apiKey)
    [] a = "compute_insights_places_aggregate" -> compute_insights_places_aggregate(args, apiKey)
    [] a = "query_autocomplete" -> query_autocomplete(args, apiKey)
    [] a = "provide_validation_feedback" -> provide_validation_feedback(args, apiKey)
    [] a = "get_directions" -> get_directions(args, apiKey)
    [] a = "get_street_view" -> get_street_view(args, apiKey)
    [] a = "get_route_matrix" -> get_route_matrix(args, apiKey)
    [] a = "get_place_photo" -> get_place_photo(args, apiKey)
    [] a = "get_heatmap_tiles" -> get_heatmap_tiles(args, apiKey)
    [] a = "compute_insights_area" -> compute_insights_area(args, apiKey)
    [] a = "geolocate" -> geolocate(args, apiKey)
    [] a = "get_hourly_weather" -> get_hourly_weather(args, apiKey)
    [] a = "get_street_view_metadata" -> get_street_view_metadata(args, apiKey)
    [] a = "get_data_layers" -> get_data_layers(args, apiKey)
    [] a = "get_place_details" -> get_place_details(args, apiKey)
    [] a = "get_elevation" -> get_elevation(args, apiKey)
    [] a = "distance_matrix" -> distance_matrix(args, apiKey)
    [] a = "autocomplete_places" -> autocomplete_places(args, apiKey)
    [] a = "get_forecast" -> get_forecast(args, apiKey)
    [] OTHER -> ThrownOutsideTry(Undef)

\* definition.function.name of the apiTool
ToolName(a) ==
  CASE a = "get_route" -> "get_route"
    [] a = "get_building_insights" -> "get_building_insights"
    [] a = "render_video" -> "render_video"
    [] a = "text_search_places" -> "text_search_places"
    [] a = "get_video" -> "get_video"
    [] a = "validate_address" -> "validate_address"
    [] a = "geocode_address" -> "geocode_address"
    [] a = "compute_insights_places_aggregate" -> "compute_insights"
    [] a = "query_autocomplete" -> "query_autocomplete"
    [] a = "provide_validation_feedback" -> "provide_validation_feedback"
    [] a = "get_directions" -> "get_directions"
    [] a = "get_street_view" -> "get_street_view"
    [] a = "get_route_matrix" -> "get_route_matrix"
    [] a = "get_place_photo" -> "get_place_photo"
    [] a = "get_heatmap_tiles" -> "get_heatmap_tiles"
    [] a = "compute_insights_area" -> "compute_insights"
    [] a = "geolocate" -> "geolocate"
    [] a = "get_hourly_weather" -> "get_hourly_weather"
    [] a = "get_street_view_metadata" -> "get_street_view_metadata"
    [] a = "get_data_layers" -> "get_data_layers"
    [] a = "get_place_details" -> "get_place_details"
    [] a = "get_elevation" -> "get_elevation"
    [] a = "distance_matrix" -> "distance_matrix"
    [] a = "autocomplete_places" -> "autocomplete_places"
    [] a = "get_forecast" -> "get_forecast"
    [] OTHER -> ""

\* definition.function.description of the tool definition of each adapter
Description(a) ==
  CASE a = "get_route" ->
         "Get a route between an origin and a destination."
    [] a = "get_building_insights" ->
         "Get insights about a building based on its location."
    [] a = "render_video" ->
         "Render a video for a specified address using the Google Maps Platform."
    [] a = "text_search_places" ->
         "Perform a text search for places using the Google Maps Places API."
    [] a = "get_video" ->
         "Retrieve video URIs from the Google Aerial View API."
    [] a = "validate_address" ->
         "Validate an address using the Google Maps Address Validation API."
    [] a = "geocode_address" ->
         "Geocode an address using the Google Maps Geocoding API."
    [] a = "compute_insights_places_aggregate" ->
         "Compute insights about areas using the Google Maps Places Aggregate API."
    [] a = "query_autocomplete" ->
         "Query autocomplete suggestions from the Google Maps API."
    [] a = "provide_validation_feedback" ->
         "Provide validation feedback to the Google Address Validation API."
    [] a = "get_directions" ->
         "Get directions between two locations using the Google Maps Directions API."
    [] a = "get_street_view" ->
         "Retrieve a static Street View image from Google Maps API."
    [] a = "get_route_matrix" ->
         "Get a route matrix from the Google Maps API."
    [] a = "get_place_photo" ->
         "Retrieve a place photo from the Google Maps API."
    [] a = "get_heatmap_tiles" ->
         "Get heatmap tiles from Google Maps Platform."
    [] a = "compute_insights_area" ->
         "Compute insights for places using Google Maps API."
    [] a = "geolocate" ->
         "Geolocate using the Google Maps Geolocation API."
    [] a = "get_hourly_weather" ->
         "Retrieve hourly historical weather data from Google Maps Platform."
    [] a = "get_street_view_metadata" ->
         "Retrieve Street View metadata from Google Maps."
    [] a = "get_data_layers" ->
         "Get data layers from the Google Maps Solar API."
    [] a = "get_place_details" ->
         "Get details of a place using its place ID."
    [] a = "get_elevation" ->
         "Get elevation data for specified locations from the Google Maps Elevation API."
    [] a = "distance_matrix" ->
         "Calculate the distance matrix using Google Maps Distance Matrix API."
    [] a = "autocomplete_places" ->
         "Perform place autocomplete using Google Maps API."
    [] a = "get_forecast" ->
         "Get pollen forecast based on location."
    [] OTHER -> ""

\* the Response method that reads the body: response.json(), response.text() or response.buffer()
BodyReader(a) ==
  CASE a = "get_route" -> "json"
    [] a = "get_building_insights" -> "json"
    [] a = "render_video" -> "json"
    [] a = "text_search_places" -> "json"
    [] a = "get_video" -> "json"
    [] a = "validate_address" -> "json"
    [] a = "geocode_address" -> "json"
    [] a = "compute_insights_places_aggregate" -> "json"
    [] a = "query_autocomplete" -> "json"
    [] a = "provide_validation_feedback" -> "json"
    [] a = "get_directions" -> "json"
    [] a = "get_street_view" -> "buffer"
    [] a = "get_route_matrix" -> "json"
    [] a = "get_place_photo" -> "buffer"
    [] a = "get_heatmap_tiles" -> "text"
    [] a = "compute_insights_area" -> "json"
    [] a = "geolocate" -> "json"
    [] a = "get_hourly_weather" -> "json"
    [] a = "get_street_view_metadata" -> "json"
    [] a = "get_data_layers" -> "json"
    [] a = "get_place_details" -> "json"
    [] a = "get_elevation" -> "json"
    [] a = "distance_matrix" -> "json"
    [] a = "autocomplete_places" -> "json"
    [] a = "get_forecast" -> "json"
    [] OTHER -> ""

\* first argument of console.error in the catch block
LogLabel(a) ==
  CASE a = "get_route" -> "Error getting route:"
    [] a = "get_building_insights" -> "Error fetching building insights:"
    [] a = "render_video" -> "Error rendering video:"
    [] a = "text_search_places" -> "Error performing text search:"
    [] a = "get_video" -> "Error retrieving video:"
    [] a = "validate_address" -> "Error validating address:"
    [] a = "geocode_address" -> "Error geocoding address:"
    [] a = "compute_insights_places_aggregate" -> "Error computing insights:"
    [] a = "query_autocomplete" -> "Error querying autocomplete:"
    [] a = "provide_validation_feedback" -> "Error providing validation feedback:"
    [] a = "get_directions" -> "Error fetching directions:"
    [] a = "get_street_view" -> "Error retrieving Street View image:"
    [] a = "get_route_matrix" -> "Error getting route matrix:"
    [] a = "get_place_photo" -> "Error retrieving place photo:"
    [] a = "get_heatmap_tiles" -> "Error fetching heatmap tiles:"
    [] a = "compute_insights_area" -> "Error computing insights:"
    [] a = "geolocate" -> "Error geolocating:"
    [] a = "get_hourly_weather" -> "Error retrieving hourly historical weather data:"
    [] a = "get_street_view_metadata" -> "Error retrieving Street View metadata:"
    [] a = "get_data_layers" -> "Error getting data layers:"
    [] a = "get_place_details" -> "Error getting place details:"
    [] a = "get_elevation" -> "Error fetching elevation data:"
    [] a = "distance_matrix" -> "Error calculating distance matrix:"
    [] a = "autocomplete_places" -> "Error performing autocomplete:"
    [] a = "get_forecast" -> "Error getting pollen forecast:"
    [] OTHER -> ""

\* text before the colon in the message built by the catch block
ErrorContext(a) ==
  CASE a = "get_route" -> "An error occurred while getting the route"
    [] a = "get_building_insights" -> "An error occurred while fetching building insights"
    [] a = "render_video" -> "An error occurred while rendering the video"
    [] a = "text_search_places" -> "An error occurred while performing the text search"
    [] a = "get_video" -> "An error occurred while retrieving the video"
    [] a = "validate_address" -> "An error occurred while validating the address"
    [] a = "geocode_address" -> "An error occurred while geocoding the address"
    [] a = "compute_insights_places_aggregate" -> "An error occurred while computing insights"
    [] a = "query_autocomplete" -> "An error occurred while querying autocomplete"
    [] a = "provide_validation_feedback" -> "An error occurred while providing validation feedback"
    [] a = "get_directions" -> "An error occurred while fetching directions"
    [] a = "get_street_view" -> "An error occurred while retrieving the Street View image"
    [] a = "get_route_matrix" -> "An error occurred while getting the route matrix"
    [] a = "get_place_photo" -> "An error occurred while retrieving the place photo"
    [] a = "get_heatmap_tiles" -> "An error occurred while fetching heatmap tiles"
    [] a = "compute_insights_area" -> "An error occurred while computing insights"
    [] a = "geolocate" -> "An error occurred while geolocating"
    [] a = "get_hourly_weather" -> "An error occurred while retrieving weather data"
    [] a = "get_street_view_metadata" -> "An error occurred while retrieving Street View metadata"
    [] a = "get_data_layers" -> "An error occurred while getting data layers"
    [] a = "get_place_details" -> "An error occurred while getting place details"
    [] a = "get_elevation" -> "An error occurred while fetching elevation data"
    [] a = "distance_matrix" -> "An error occurred while calculating the distance matrix"
    [] a = "autocomplete_places" -> "An error occurred while performing autocomplete"
    [] a = "get_forecast" -> "An error occurred while getting the pollen forecast"
    [] OTHER -> ""

\* definition.function.parameters: properties with their types, and the required list
Schema(a) ==
  CASE a = "get_route" ->
         <<[name |-> "origin", type |-> "object", required |-> TRUE],
           [name |-> "destination", type |-> "object", required |-> TRUE]>>
    [] a = "get_building_insights" ->
         <<[name |-> "latitude", type |-> "number", required |-> TRUE],
           [name |-> "longitude", type |-> "number", required |-> TRUE]>>
    [] a = "render_video" ->
         <<[name |-> "address", type |-> "string", required |-> TRUE]>>
    [] a = "text_search_places" ->
         <<[name |-> "textQuery", type |-> "string", required |-> TRUE],
           [name |-> "includedType", type |-> "string", required |-> FALSE],
           [name |-> "languageCode", type |-> "string", required |-> FALSE],
           [name |-> "locationBias", type |-> "object", required |-> FALSE],
           [name |-> "locationRestriction", type |-> "object", required |-> FALSE],
           [name |-> "evOptions", type |-> "object", required |-> FALSE],
           [name |-> "minRating", type |-> "boolean", required |-> FALSE],
           [name |-> "openNow", type |-> "boolean", required |-> FALSE],
           [name |-> "pageSize", type |-> "integer", required |-> FALSE],
           [name |-> "pageToken", type |-> "string", required |-> FALSE],
           [name |-> "priceLevels", type |-> "array", required |-> FALSE],
           [name |-> "rankPreference", type |-> "string", required |-> FALSE],
           [name |-> "regionCode", type |-> "string", required |-> FALSE],
           [name |-> "strictTypeFiltering", type |-> "string", required |-> FALSE]>>
    [] a = "get_video" ->
         <<[name |-> "videoId", type |-> "string", required |-> TRUE]>>
    [] a = "validate_address" ->
         <<[name |-> "regionCode", type |-> "string", required |-> TRUE],
           [name |-> "locality", type |-> "string", required |-> TRUE],
           [name |-> "addressLines", type |-> "array", required |-> TRUE]>>
    [] a = "geocode_address" ->
         <<[name |-> "address", type |-> "string", required |-> TRUE],
           [name |-> "bounds", type |-> "string", required |-> FALSE],
           [name |-> "components", type |-> "string", required |-> FALSE],
           [name |-> "latlng", type |-> "string", required |-> FALSE],
           [name |-> "place_id", type |-> "string", required |-> FALSE],
           [name |-> "language", type |-> "string", required |-> FALSE],
           [name |-> "region", type |-> "string", required |-> FALSE]>>
    [] a = "compute_insights_places_aggregate" ->
         <<[name |-> "insights", type |-> "array", required |-> TRUE],
           [name |-> "filter", type |-> "object", required |-> TRUE]>>
    [] a = "query_autocomplete" ->
         <<[name |-> "input", type |-> "string", required |-> TRUE],
           [name |-> "offset", type |-> "integer", required |-> FALSE],
           [name |-> "location", type |-> "string", required |-> FALSE],
           [name |-> "radius", type |-> "integer", required |-> FALSE],
           [name |-> "language", type |-> "string", required |-> FALSE]>>
    [] a = "provide_validation_feedback" ->
         <<[name |-> "conclusion", type |-> "string", required |-> TRUE],
           [name |-> "responseId", type |-> "string", required |-> TRUE]>>
    [] a = "get_directions" ->
         <<[name |-> "origin", type |-> "string", required |-> TRUE],
           [name |-> "destination", type |-> "string", required |-> TRUE],
           [name |-> "mode", type |-> "string", required |-> FALSE],
           [name |-> "language", type |-> "string", required |-> FALSE],
           [name |-> "units", type |-> "string", required |-> FALSE],
           [name |-> "departure_time", type |-> "number", required |-> FALSE],
           [name |-> "arrival_time", type |-> "number", required |-> FALSE],
           [name |-> "alternatives", type |-> "boolean", required |-> FALSE],
           [name |-> "avoid", type |-> "string", required |-> FALSE],
           [name |-> "waypoints", type |-> "string", required |-> FALSE],
           [name |-> "region", type |-> "string", required |-> FALSE],
           [name |-> "traffic_model", type |-> "string", required |-> FALSE]>>
    [] a = "get_street_view" ->
         <<[name |-> "size", type |-> "string", required |-> TRUE],
           [name |-> "fov", type |-> "number", required |-> FALSE],
           [name |-> "heading", type |-> "number", required |-> FALSE],
           [name |-> "location", type |-> "string", required |-> FALSE],
           [name |-> "pano", type |-> "string", required |-> FALSE],
           [name |-> "pitch", type |-> "number", required |-> FALSE],
           [name |-> "radius", type |-> "number", required |-> FALSE],
           [name |-> "return_error_code", type |-> "boolean", required |-> FALSE],
           [name |-> "signature", type |-> "string", required |-> FALSE],
           [name |-> "source", type |-> "string", required |-> FALSE]>>
    [] a = "get_route_matrix" ->
         <<[name |-> "origins", type |-> "array", required |-> TRUE],
           [name |-> "destinations", type |-> "array", required |-> TRUE],
           [name |-> "travelMode", type |-> "string", required |-> FALSE],
           [name |-> "routingPreference", type |-> "string", required |-> FALSE]>>
    [] a = "get_place_photo" ->
         <<[name |-> "photo_reference", type |-> "string", required |-> TRUE],
           [name |-> "maxheight", type |-> "integer", required |-> FALSE],
           [name |-> "maxwidth", type |-> "integer", required |-> FALSE]>>
    [] a = "get_heatmap_tiles" ->
         <<[name |-> "mapType", type |-> "string", required |-> TRUE],
           [name |-> "x", type |-> "integer", required |-> TRUE],
           [name |-> "y", type |-> "integer", required |-> TRUE],
           [name |-> "zoom", type |-> "integer", required |-> TRUE]>>
    [] a = "compute_insights_area" ->
         <<[name |-> "insights", type |-> "array", required |-> TRUE],
           [name |-> "filter", type |-> "object", required |-> TRUE]>>
    [] a = "geolocate" ->
         <<[name |-> "cellTowers", type |-> "array", required |-> TRUE],
           [name |-> "wifiAccessPoints", type |-> "array", required |-> TRUE],
           [name |-> "considerIp", type |-> "boolean", required |-> FALSE]>>
    [] a = "get_hourly_weather" ->
         <<[name |-> "latitude", type |-> "number", required |-> TRUE],
           [name |-> "longitude", type |-> "number", required |-> TRUE],
           [name |-> "unitsSystem", type |-> "string", required |-> FALSE],
           [name |-> "pageSize", type |-> "integer", required |-> FALSE],
           [name |-> "pageToken", type |-> "string", required |-> FALSE],
           [name |-> "hours", type |-> "integer", required |-> FALSE],
           [name |-> "languageCode", type |-> "string", required |-> FALSE]>>
    [] a = "get_street_view_metadata" ->
         <<[name |-> "location", type |-> "string", required |-> TRUE],
           [name |-> "heading", type |-> "number", required |-> FALSE],
           [name |-> "pano", type |-> "string", required |-> FALSE],
           [name |-> "pitch", type |-> "number", required |-> FALSE],
           [name |-> "radius", type |-> "number", required |-> FALSE],
           [name |-> "return_error_code", type |-> "boolean", required |-> FALSE],
           [name |-> "signature", type |-> "string", required |-> FALSE],
           [name |-> "size", type |-> "string", required |-> FALSE],
           [name |-> "source", type |-> "string", required |-> FALSE]>>
    [] a = "get_data_layers" ->
         <<[name |-> "latitude", type |-> "number", required |-> TRUE],
           [name |-> "longitude", type |-> "number", required |-> TRUE],
           [name |-> "radiusMeters", type |-> "integer", required |-> FALSE],
           [name |-> "view", type |-> "string", required |-> FALSE],
           [name |-> "requiredQuality", type |-> "string", required |-> FALSE],
           [name |-> "pixelSizeMeters", type |-> "number", required |-> FALSE]>>
    [] a = "get_place_details" ->
         <<[name |-> "placeId", type |-> "string", required |-> TRUE],
           [name |-> "languageCode", type |-> "string", required |-> FALSE],
           [name |-> "regionCode", type |-> "string", required |-> FALSE],
           [name |-> "sessionToken", type |-> "string", required |-> FALSE]>>
    [] a = "get_elevation" ->
         <<[name |-> "locations", type |-> "string", required |-> TRUE],
           [name |-> "path", type |-> "string", required |-> FALSE],
           [name |-> "samples", type |-> "integer", required |-> FALSE]>>
    [] a = "distance_matrix" ->
         <<[name |-> "origins", type |-> "string", required |-> TRUE],
           [name |-> "destinations", type |-> "string", required |-> TRUE],
           [name |-> "mode", type |-> "string", required |-> FALSE],
           [name |-> "units", type |-> "string", required |-> FALSE],
           [name |-> "language", type |-> "string", required |-> FALSE],
           [name |-> "departure_time", type |-> "number", required |-> FALSE],
           [name |-> "arrival_time", type |-> "number", required |-> FALSE],
           [name |-> "avoid", type |-> "string", required |-> FALSE],
           [name |-> "region", type |-> "string", required |-> FALSE],
           [name |-> "traffic_model", type |-> "string", required |-> FALSE],
           [name |-> "transit_mode", type |-> "string", required |-> FALSE],
           [name |-> "transit_routing_preference", type |-> "string", required |-> FALSE]>>
    [] a = "autocomplete_places" ->
         <<[name |-> "input", type |-> "string", required |-> TRUE],
           [name |-> "sessiontoken", type |-> "string", required |-> FALSE],
           [name |-> "components", type |-> "string", required |-> FALSE],
           [name |-> "strictbounds", type |-> "boolean", required |-> FALSE],
           [name |-> "offset", type |-> "integer", required |-> FALSE],
           [name |-> "origin", type |-> "string", required |-> FALSE],
           [name |-> "location", type |-> "string", required |-> FALSE],
           [name |-> "radius", type |-> "integer", required |-> FALSE],
           [name |-> "types", type |-> "string", required |-> FALSE],
           [name |-> "language", type |-> "string", required |-> FALSE],
           [name |-> "region", type |-> "string", required |-> FALSE]>>
    [] a = "get_forecast" ->
         <<[name |-> "longitude", type |-> "number", required |-> TRUE],
           [name |-> "latitude", type |-> "number", required |-> TRUE],
           [name |-> "days", type |-> "integer", required |-> TRUE]>>
    [] OTHER -> <<>>


(***************************************************************************)
(* Inputs: argument mappings, API keys and upstream replies.               *)
(***************************************************************************)
\* values of a declared JSON-schema type, for an optional argument
ValuesOf(type) ==
  CASE type = "string" -> {Str(""), Str("a b")}
    [] type = "number" -> {Num(0), Num(7)}
    [] type = "integer" -> {Num(0), Num(3)}
    [] type = "boolean" -> {Bool(FALSE), Bool(TRUE)}
    [] type = "array" -> {Arr(<<>>), Arr(<<Str("x")>>)}
    [] OTHER -> {Obj(<<>>), Obj(<<Fld("address", Str("A"))>>)}

\* values of a declared JSON-schema type, for a required argument
RequiredValuesOf(type) ==
  CASE type = "string" -> {Str("a b")}
    [] type = "number" -> {Num(7)}
    [] type = "integer" -> {Num(3)}
    [] type = "boolean" -> {Bool(TRUE)}
    [] type = "array" -> {Arr(<<Str("x")>>)}
    [] OTHER -> {Obj(<<Fld("address", Str("A"))>>),
                 Obj(<<Fld("address", Str("B")), Fld("extra", Num(1))>>)}

\* the arguments that have a default in the parameter list of executeFunction
DeclaredDefaults(a) ==
  CASE a = "geocode_address" -> {"language", "region"}
    [] a = "query_autocomplete" -> {"language"}
    [] a = "get_directions" -> {"mode", "language", "units", "alternatives", "traffic_model"}
    [] a = "get_street_view" -> {"fov", "pitch", "radius", "return_error_code"}
    [] a = "get_route_matrix" -> {"travelMode", "routingPreference"}
    [] a = "geolocate" -> {"considerIp"}
    [] a = "get_hourly_weather" -> {"unitsSystem", "pageSize", "hours", "languageCode"}
    [] a = "get_street_view_metadata" -> {"radius", "return_error_code"}
    [] a = "get_data_layers" -> {"radiusMeters", "view", "requiredQuality", "pixelSizeMeters"}
    [] a = "distance_matrix" -> {"mode", "units", "language", "region", "traffic_model"}
    [] a = "autocomplete_places" -> {"language", "region"}
    [] OTHER -> {}

ParamNames(a) == {Schema(a)[i].name : i \in DOMAIN Schema(a)}
RequiredNames(a) == {Schema(a)[i].name : i \in {j \in DOMAIN Schema(a) : Schema(a)[j].required}}
OptionalNames(a) == ParamNames(a) \ RequiredNames(a)
TypeOf(a, name) == Schema(a)[CHOOSE i \in DOMAIN Schema(a) : Schema(a)[i].name = name].type

\* the tool definition an adapter exports: definition.function with its name, its
\* description, the properties of its parameter schema (each with its type) and
\* its required list
ToolDefinition(a) ==
  [name |-> ToolName(a),
   description |-> Description(a),
   properties |-> [p \in ParamNames(a) |-> TypeOf(a, p)],
   required |-> RequiredNames(a)]

\* the definitions as they are when the modules have been loaded
Loaded == [a \in Adapters |-> ToolDefinition(a)]

RECURSIVE MapsOver(_, _)
MapsOver(a, D) ==
  IF D = {} THEN {<<>>}
  ELSE LET p == CHOOSE q \in D : TRUE
           vals == IF p \in RequiredNames(a) THEN RequiredValuesOf(TypeOf(a, p))
                   ELSE ValuesOf(TypeOf(a, p))
       IN {(p :> v) @@ m : v \in vals, m \in MapsOver(a, D \ {p})}

\* argument mappings: typed values, at most MaxOptional optional keys,
\* at most MaxMissing required keys left out
ArgMaps(a) ==
  UNION {MapsOver(a, D) :
           D \in {E \in SUBSET ParamNames(a) :
                    /\ Cardinality(E \cap OptionalNames(a)) <= MaxOptional
                    /\ Cardinality(RequiredNames(a) \ E) <= MaxMissing}}

\* process.env.GOOGLE_MAPS_PLATFORM_API_KEY: a string, or undefined when unset
Keys == {Str("K1"), Undef}

\* JSON documents an upstream may answer with: a page of results that names a next
\* page, and an error document
JsonDocs ==
  {Obj(<<Fld("status", Str("OK")), Fld("nextPageToken", Str("T"))>>),
   Obj(<<Fld("error", Obj(<<Fld("code", Num(404))>>))>>)}

\* body texts: a document written compactly, one written with spaces, and a text
\* that is not JSON
BodyTexts ==
  {Stringify(Obj(<<Fld("status", Str("OK")), Fld("nextPageToken", Str("T"))>>)),
   StringifySp(Obj(<<Fld("error", Obj(<<Fld("code", Num(404))>>))>>), " "),
   "<html>"}

Statuses == {200, 404}

StatusText(status) == IF status = 200 THEN "OK" ELSE "Not Found"

Responses == [status : Statuses, body : BodyTexts]

NoResponse == [status |-> 0, body |-> ""]

\* response.ok
Ok(resp) == resp.status >= 200 /\ resp.status <= 299

\* JSON.parse on the body texts: the document a text is a rendering of
IsJson(text) == \E d \in JsonDocs : text \in {Stringify(d), StringifySp(d, " ")}
JsonParse(text) == CHOOSE d \in JsonDocs : text \in {Stringify(d), StringifySp(d, " ")}


(***************************************************************************)
(* State.  env is the API key of the process environment.  inv holds, for  *)
(* each caller, its current invocation: the adapter and arguments, the key *)
(* read at the start, the requests handed to fetch, the reply, the value   *)
(* read from its body (errorData, data or imageBuffer), the lines written  *)
(* with console.error, and how the returned promise settled.               *)
(***************************************************************************)
Idle ==
  [pc |-> "idle", adapter |-> "", args |-> <<>>, apiKey |-> Undef, calls |-> <<>>,
   resp |-> NoResponse, data |-> Undef, logs |-> <<>>, outcome |-> "pending", value |-> Undef]

\* a catch policy that converts in every adapter
CatchPolicyAllEnvelope(a) == "envelope"

\* what the catch block does with a caught error: return an envelope, or rethrow
CatchPolicy(a) == IF a \in {"get_street_view", "get_place_photo"} THEN "throw" ELSE "envelope"

\* error instanceof Error ? error.message : JSON.stringify(error)
EnvelopeMessage(e) == IF e.t = "error" THEN e.s ELSE Stringify(e)

\* the error envelope { error: `<context>: <message>` }
Envelope(a, e) == Obj(<<Fld("error", Str(ErrorContext(a) \o ": " \o EnvelopeMessage(e)))>>)

\* the error thrown again by the catch block of a binary adapter
Rethrown(a, e) == Err(ErrorContext(a) \o ": " \o (IF e.t = "error" THEN e.s ELSE "undefined"))

\* a catch block that logs and lets the error escape
CatchBlockRethrows(r, e) ==
  [r EXCEPT !.pc = "done", !.logs = Append(@, LogLabel(r.adapter)),
            !.outcome = "rejected", !.value = e]

\* the catch block: one console.error line, then the envelope or the rethrow
CatchBlock(r, e) ==
  IF CatchPolicy(r.adapter) = "throw"
  THEN [r EXCEPT !.pc = "done", !.logs = Append(@, LogLabel(r.adapter)),
                 !.outcome = "rejected", !.value = Rethrown(r.adapter, e)]
  ELSE [r EXCEPT !.pc = "done", !.logs = Append(@, LogLabel(r.adapter)),
                 !.outcome = "resolved", !.value = Envelope(r.adapter, e)]

\* an exception that leaves the async function: the promise rejects
Rejects(r, e) == [r EXCEPT !.pc = "done", !.outcome = "rejected", !.value = e]

\* return data
Returns(r, v) == [r EXCEPT !.pc = "done", !.outcome = "resolved", !.value = v]

\* a status error that leaves the status out
StatusErrorNoStatus(a, resp) == Err("HTTP error!")

\* the error thrown by a binary adapter on a non-2xx status
StatusError(a, resp) ==
  IF a = "get_street_view"
  THEN Err("HTTP error! status: " \o NatStr(resp.status))
  ELSE Err("Error: " \o NatStr(resp.status) \o " " \o StatusText(resp.status))

\* await response.json() / text() / buffer() on a body that arrived: the value
\* read, or the SyntaxError of a text that is not JSON
ReadBody(a, text) ==
  CASE BodyReader(a) = "text" -> [ok |-> TRUE, val |-> Str(text)]
    [] BodyReader(a) = "buffer" -> [ok |-> TRUE, val |-> Buf(text)]
    [] OTHER -> IF IsJson(text) THEN [ok |-> TRUE, val |-> JsonParse(text)]
                ELSE [ok |-> FALSE, val |-> Err("Unexpected token < in JSON at position 0")]

\* the error thrown on a non-2xx status: new Error(JSON.stringify(errorData)),
\* or new Error(errorData) where the body was read as text
ErrorFromBody(a, errorData) ==
  IF BodyReader(a) = "text" THEN Err(errorData.s) ELSE Err(Stringify(errorData))

(***************************************************************************)
(* Actions.                                                                *)
(***************************************************************************)
Init ==
  /\ env \in Keys
  /\ inv = [i \in {1} |-> Idle]
  /\ tools = Loaded

\* an invocation that builds its request with a key kept from an invocation still
\* in flight, as if the key were cached in a module-level value
InvokeCachedKey(i, a, args) ==
  /\ inv[i].pc = "idle"
  /\ LET others == {j \in DOMAIN inv \ {i} : inv[j].pc # "idle"}
         cached == IF others = {} THEN env ELSE inv[CHOOSE j \in others : TRUE].apiKey
         plan == BuildRequest(a, args, cached)
         r == [Idle EXCEPT !.adapter = a, !.args = args, !.apiKey = env]
     IN inv' = [inv EXCEPT ![i] =
          CASE plan.thrown = "outside" -> Rejects(r, plan.err)
            [] plan.thrown = "inside" -> CatchBlock(r, plan.err)
            [] OTHER -> [r EXCEPT !.pc = "fetch", !.calls = <<plan.req>>]]
  /\ UNCHANGED <<env, tools>>

\* executeFunction(args) up to its first await
Invoke(i, a, args) ==
  /\ inv[i].pc = "idle"
  /\ LET plan == BuildRequest(a, args, env)
         r == [Idle EXCEPT !.adapter = a, !.args = args, !.apiKey = env]
     IN inv' = [inv EXCEPT ![i] =
          CASE plan.thrown = "outside" -> Rejects(r, plan.err)
            [] plan.thrown = "inside" -> CatchBlock(r, plan.err)
            [] OTHER -> [r EXCEPT !.pc = "fetch", !.calls = <<plan.req>>]]
  /\ UNCHANGED <<env, tools>>

\* a transport failure that is retried once before it is reported
FetchFailsRetries(i) ==
  /\ inv[i].pc = "fetch"
  /\ inv' = [inv EXCEPT ![i] =
       IF Len(@.calls) < 2 THEN [@ EXCEPT !.calls = Append(@, @[1])]
       ELSE CatchBlock(@, Err("fetch failed"))]
  /\ UNCHANGED <<env, tools>>

\* await fetch(...) rejects: transport failure
FetchFails(i) ==
  /\ inv[i].pc = "fetch"
  /\ inv' = [inv EXCEPT ![i] = CatchBlock(@, Err("fetch failed"))]
  /\ UNCHANGED <<env, tools>>

\* a fetch whose promise resolves only when the body has been read as well, so that
\* the invocation waits once
FetchRespondsWithBody(i, resp, hasBuffer) ==
  /\ inv[i].pc = "fetch"
  /\ LET r == [inv[i] EXCEPT !.resp = resp]
         a == r.adapter
         rd == ReadBody(a, resp.body)
         got == [r EXCEPT !.data = rd.val]
     IN inv' = [inv EXCEPT ![i] =
          IF BodyReader(a) = "buffer" /\ ~Ok(resp) THEN CatchBlock(r, StatusError(a, resp))
          ELSE IF BodyReader(a) = "buffer" /\ ~hasBuffer
               THEN CatchBlock(r, Err("response.buffer is not a function"))
          ELSE IF ~rd.ok THEN CatchBlock(r, rd.val)
          ELSE IF ~Ok(resp) THEN CatchBlock(got, ErrorFromBody(a, rd.val))
          ELSE Returns(got, rd.val)]
  /\ UNCHANGED <<env, tools>>

\* await fetch(...) resolves with a response; hasBuffer tells whether the
\* Response of the fetch in use has a buffer() method
FetchResponds(i, resp, hasBuffer) ==
  /\ inv[i].pc = "fetch"
  /\ LET r == [inv[i] EXCEPT !.resp = resp]
         a == r.adapter
     IN inv' = [inv EXCEPT ![i] =
          IF BodyReader(a) = "buffer"
          THEN IF ~Ok(resp) THEN CatchBlock(r, StatusError(a, resp))
               ELSE IF ~hasBuffer THEN CatchBlock(r, Err("response.buffer is not a function"))
               ELSE [r EXCEPT !.pc = "body"]
          ELSE [r EXCEPT !.pc = "body"]]
  /\ UNCHANGED <<env, tools>>

\* a failed body read that strikes the required list from the adapter's definition
BodyFailsEditsDefinition(i) ==
  /\ inv[i].pc = "body"
  /\ inv' = [inv EXCEPT ![i] = CatchBlock(@, Err("terminated"))]
  /\ tools' = [tools EXCEPT ![inv[i].adapter].required = {}]
  /\ UNCHANGED env

\* await response.json() / text() / buffer() rejects: the body cannot be read
BodyFails(i) ==
  /\ inv[i].pc = "body"
  /\ inv' = [inv EXCEPT ![i] = CatchBlock(@, Err("terminated"))]
  /\ UNCHANGED <<env, tools>>

\* a body read that takes the body of the reply received last by any caller, as if
\* the response were kept in a value shared by the invocations
BodyArrivesShared(i) ==
  /\ inv[i].pc = "body"
  /\ LET r == inv[i]
         a == r.adapter
         others == {j \in DOMAIN inv \ {i} : inv[j].resp # NoResponse}
         latest == IF others = {} THEN r.resp ELSE inv[CHOOSE j \in others : TRUE].resp
         rd == ReadBody(a, latest.body)
         got == [r EXCEPT !.data = rd.val]
     IN inv' = [inv EXCEPT ![i] =
          IF ~rd.ok THEN CatchBlock(r, rd.val)
          ELSE IF ~Ok(r.resp) THEN CatchBlock(got, ErrorFromBody(a, rd.val))
          ELSE Returns(got, rd.val)]
  /\ UNCHANGED <<env, tools>>

\* await response.json() / text() / buffer() settles with the body read
BodyArrives(i) ==
  /\ inv[i].pc = "body"
  /\ LET r == inv[i]
         a == r.adapter
         rd == ReadBody(a, r.resp.body)
         got == [r EXCEPT !.data = rd.val]
     IN inv' = [inv EXCEPT ![i] =
          IF ~rd.ok THEN CatchBlock(r, rd.val)
          ELSE IF ~Ok(r.resp) THEN CatchBlock(got, ErrorFromBody(a, rd.val))
          ELSE Returns(got, rd.val)]
  /\ UNCHANGED <<env, tools>>

\* the caller takes the settled promise
Settled(i) ==
  /\ inv[i].pc = "done"
  /\ inv' = [inv EXCEPT ![i] = Idle]
  /\ UNCHANGED <<env, tools>>

\* a change of the environment that reaches the invocations in flight
SetEnvReachesInFlight(k) ==
  /\ env # k
  /\ env' = k
  /\ inv' = [i \in DOMAIN inv |->
       IF inv[i].pc \in {"fetch", "body"}
       THEN [inv[i] EXCEPT !.apiKey = k,
                           !.calls = <<BuildRequest(inv[i].adapter, inv[i].args, k).req>>]
       ELSE inv[i]]
  /\ UNCHANGED tools

\* the environment variable is set or unset from outside
SetEnv(k) ==
  /\ env # k
  /\ env' = k
  /\ UNCHANGED <<inv, tools>>

Next ==
  \/ \E i \in DOMAIN inv :
       /\ inv[i].pc = "idle"
       /\ \E a \in Adapters : \E args \in ArgMaps(a) : Invoke(i, a, args)
  \/ \E i \in DOMAIN inv : FetchFails(i)
  \/ \E i \in DOMAIN inv, resp \in Responses, hasBuffer \in BOOLEAN : FetchResponds(i, resp, hasBuffer)
  \/ \E i \in DOMAIN inv : BodyFails(i)
  \/ \E i \in DOMAIN inv : BodyArrives(i)
  \/ \E i \in DOMAIN inv : Settled(i)
  \/ \E k \in Keys : SetEnv(k)

Spec == Init /\ [][Next]_vars

\* Two callers with invocations in flight at the same time.  The calls are drawn
\* from three JSON adapters and a binary adapter, each with its required arguments.
Callers == {1, 2}

ConcurrentCalls ==
  {[adapter |-> "get_directions",
    args |-> [p \in {"origin", "destination"} |-> Str("a b")]],
   [adapter |-> "geocode_address",
    args |-> [p \in {"address"} |-> Str("a b")]],
   [adapter |-> "distance_matrix",
    args |-> [p \in {"origins", "destinations"} |-> Str("a b")]],
   [adapter |-> "get_street_view",
    args |-> [p \in {"size"} |-> Str("a b")]]}

InitConcurrent ==
  /\ env \in Keys
  /\ inv = [i \in Callers |-> Idle]
  /\ tools = Loaded

NextConcurrent ==
  \/ \E i \in DOMAIN inv :
       /\ inv[i].pc = "idle"
       /\ \E c \in ConcurrentCalls : Invoke(i, c.adapter, c.args)
  \/ \E i \in DOMAIN inv : FetchFails(i)
  \/ \E i \in DOMAIN inv, resp \in Responses, hasBuffer \in BOOLEAN : FetchResponds(i, resp, hasBuffer)
  \/ \E i \in DOMAIN inv : BodyFails(i)
  \/ \E i \in DOMAIN inv : BodyArrives(i)
  \/ \E i \in DOMAIN inv : Settled(i)
  \/ \E k \in Keys : SetEnv(k)

SpecConcurrent == InitConcurrent /\ [][NextConcurrent]_vars

\* The awaited operations settle: a pending fetch call fails or is answered, and a
\* pending body read fails or completes.
Fairness ==
  \A i \in {1} :
    /\ WF_vars(FetchFails(i) \/ \E resp \in Responses, hasBuffer \in BOOLEAN :
                                   FetchResponds(i, resp, hasBuffer))
    /\ WF_vars(BodyFails(i) \/ BodyArrives(i))

LiveSpec == Spec /\ Fairness


(***************************************************************************)
(* Properties.                                                             *)
(***************************************************************************)
\* the two adapters that return image bytes; every other adapter is JSON-returning
BinaryAdapters == {"get_street_view", "get_place_photo"}
JsonAdapters == Adapters \ BinaryAdapters

\* a value of shape { error: <string> } with no other key
IsErrorEnvelope(v) ==
  /\ v.t = "object"
  /\ Len(v.f) = 1
  /\ v.f[1].k = "error"
  /\ v.f[1].v.t = "string"

\* C1: a JSON-returning adapter whose upstream reply has a non-2xx status resolves
\* to a value of shape { error: <string> } and never rejects, whether the error
\* body is JSON or not
C1_NonOkResolvesToEnvelope ==
  \A i \in DOMAIN inv :
    (/\ inv[i].pc = "done"
     /\ inv[i].adapter \in JsonAdapters
     /\ inv[i].resp # NoResponse
     /\ ~Ok(inv[i].resp))
    => (inv[i].outcome = "resolved" /\ IsErrorEnvelope(inv[i].value))

C1_Witness ==
  \E i \in DOMAIN inv :
    /\ inv[i].pc = "done"
    /\ inv[i].adapter = "get_directions"
    /\ inv[i].resp = [status |-> 404, body |-> "<html>"]

\* C2: for every argument mapping, also one that omits a required key, the promise
\* of a JSON-returning adapter resolves and never rejects, and a failure resolves
\* to an error envelope
C2_JsonAdapterNeverRejects ==
  \A i \in DOMAIN inv :
    (inv[i].pc = "done" /\ inv[i].adapter \in JsonAdapters)
    => /\ inv[i].outcome = "resolved"
       /\ (inv[i].logs # <<>> => IsErrorEnvelope(inv[i].value))

\* C3: in a JSON-returning adapter a transport failure, a non-2xx status and a 2xx
\* body that is not JSON all give the same result, an object whose only key is
\* error, holding a string
C3_FailureKindsFoldIntoEnvelope ==
  \A i \in DOMAIN inv :
    (/\ inv[i].pc = "done"
     /\ inv[i].adapter \in JsonAdapters
     /\ inv[i].calls # <<>>
     /\ (inv[i].resp = NoResponse \/ ~Ok(inv[i].resp) \/ ~IsJson(inv[i].resp.body)))
    => (inv[i].outcome = "resolved" /\ IsErrorEnvelope(inv[i].value))

\* C4: in get_street_view and get_place_photo a non-2xx upstream reply reaches the
\* caller as a failure whose message contains the HTTP status code of the reply
C4_BinaryFailureCarriesStatus ==
  \A i \in DOMAIN inv :
    (/\ inv[i].pc = "done"
     /\ inv[i].adapter \in BinaryAdapters
     /\ inv[i].resp # NoResponse
     /\ ~Ok(inv[i].resp))
    => /\ inv[i].outcome = "rejected"
       /\ inv[i].value.t = "error"
       /\ Contains(inv[i].value.s, NatStr(inv[i].resp.status))

C4_Witness ==
  \E i \in DOMAIN inv :
    /\ inv[i].pc = "done"
    /\ inv[i].adapter = "get_place_photo"
    /\ inv[i].resp.status = 404

\* C5: the two binary adapters never return an error envelope: a transport failure,
\* a non-2xx status and a failed body read are all thrown to the caller, and a
\* resolved result is the bytes of a 2xx reply
C5_BinaryThrowsOrReturnsBytes ==
  \A i \in DOMAIN inv :
    (inv[i].pc = "done" /\ inv[i].adapter \in BinaryAdapters)
    => /\ ~IsErrorEnvelope(inv[i].value)
       /\ \/ inv[i].outcome = "rejected" /\ inv[i].value.t = "error"
          \/ /\ inv[i].outcome = "resolved"
             /\ Ok(inv[i].resp)
             /\ inv[i].value = Buf(inv[i].resp.body)
       /\ (inv[i].resp = NoResponse \/ ~Ok(inv[i].resp) \/ inv[i].data = Undef)
          => inv[i].outcome = "rejected"

C5_Witness ==
  \E i \in DOMAIN inv :
    /\ inv[i].pc = "done"
    /\ inv[i].adapter = "get_street_view"
    /\ Ok(inv[i].resp)
    /\ inv[i].data = Undef
    /\ inv[i].logs # <<>>

\* C6: when the upstream answers 2xx with a JSON body B, a JSON-returning adapter
\* returns exactly B, also when B has an error key of its own
C6_RoundTrip ==
  \A i \in DOMAIN inv :
    (/\ inv[i].pc = "done"
     /\ inv[i].adapter \in JsonAdapters
     /\ Ok(inv[i].resp)
     /\ IsJson(inv[i].resp.body)
     /\ inv[i].data # Undef)
    => (inv[i].outcome = "resolved" /\ inv[i].value = JsonParse(inv[i].resp.body))

\* C7: on a 2xx reply every adapter other than get_street_view and get_place_photo
\* returns the body parsed as a JSON object, and those two return raw bytes
C7_ParsedObjectOrBytes ==
  \A i \in DOMAIN inv :
    (/\ inv[i].pc = "done"
     /\ Ok(inv[i].resp)
     /\ inv[i].data # Undef)
    => /\ inv[i].outcome = "resolved"
       /\ inv[i].value.t = (IF inv[i].adapter \in BinaryAdapters THEN "buffer" ELSE "object")

\* C8: when the upstream answers non-2xx with a JSON error body E, a JSON-returning
\* adapter returns { error: context, colon, space, JSON serialization of E }
C8_ErrorIsContextAndSerializedBody ==
  \A i \in DOMAIN inv :
    (/\ inv[i].pc = "done"
     /\ inv[i].adapter \in JsonAdapters
     /\ inv[i].resp # NoResponse
     /\ ~Ok(inv[i].resp)
     /\ IsJson(inv[i].resp.body)
     /\ inv[i].data # Undef)
    => inv[i].value =
         Obj(<<Fld("error", Str(ErrorContext(inv[i].adapter) \o ": "
                                \o Stringify(JsonParse(inv[i].resp.body))))>>)

\* the values of the parameter called name among the parsed query parameters params
ValuesIn(params, name) ==
  {params[k].v : k \in {j \in DOMAIN params : params[j].k = name}}

\* the values of the query parameter called name in the request of invocation r
SentValues(r, name) == ValuesIn(QueryParams(r.calls[1].url), name)

\* C9 as stated: the request get_directions issues carries mode=driving and the one
\* get_street_view issues carries fov=90 when the argument is absent, and the
\* supplied value when it is supplied
C9_DefaultOrSuppliedValue ==
  \A i \in DOMAIN inv :
    (inv[i].pc = "fetch" /\ inv[i].calls # <<>>)
    => /\ inv[i].adapter = "get_directions"
          => SentValues(inv[i], "mode") =
               {IF "mode" \in DOMAIN inv[i].args THEN ToStr(inv[i].args["mode"]) ELSE "driving"}
       /\ inv[i].adapter = "get_street_view"
          => SentValues(inv[i], "fov") =
               {IF "fov" \in DOMAIN inv[i].args THEN ToStr(inv[i].args["fov"]) ELSE "90"}

\* C9 amended: get_directions sends mode=driving without mode and the supplied mode
\* otherwise; get_street_view sends fov=90 without fov, the supplied fov when it is
\* truthy, and no fov parameter when the supplied fov is 0
C9_DefaultOrTruthySuppliedValue ==
  \A i \in DOMAIN inv :
    (inv[i].pc = "fetch" /\ inv[i].calls # <<>>)
    => /\ inv[i].adapter = "get_directions"
          => SentValues(inv[i], "mode") =
               {IF "mode" \in DOMAIN inv[i].args THEN ToStr(inv[i].args["mode"]) ELSE "driving"}
       /\ inv[i].adapter = "get_street_view"
          => SentValues(inv[i], "fov") =
               (IF "fov" \notin DOMAIN inv[i].args THEN {"90"}
                ELSE IF inv[i].args["fov"] = Num(0) THEN {}
                ELSE {ToStr(inv[i].args["fov"])})

C9_Witness ==
  \E i \in DOMAIN inv :
    /\ inv[i].adapter = "get_street_view"
    /\ inv[i].calls # <<>>
    /\ "fov" \in DOMAIN inv[i].args
    /\ inv[i].args["fov"] = Num(0)

\* an argument of shape { address: <string>, ... }
HasAddress(args, name) ==
  /\ name \in DOMAIN args
  /\ args[name].t = "object"
  /\ GetProp(args[name], "address").t = "string"

\* C10: get_route with origin {address: A} and destination {address: B} issues one
\* POST to https://routes.googleapis.com/directions/v2:computeRoutes whose body is
\* exactly {origin:{address:A},destination:{address:B}}, also when the objects
\* carry extra fields, with the header X-Goog-FieldMask: *
C10_GetRouteRequest ==
  \A i \in DOMAIN inv :
    (/\ inv[i].pc # "idle"
     /\ inv[i].adapter = "get_route"
     /\ HasAddress(inv[i].args, "origin")
     /\ HasAddress(inv[i].args, "destination"))
    => /\ Len(inv[i].calls) = 1
       /\ inv[i].calls[1].method = "POST"
       /\ inv[i].calls[1].url = "https://routes.googleapis.com/directions/v2:computeRoutes"
       /\ inv[i].calls[1].body =
            Str("{\"origin\":{\"address\":\"" \o GetProp(inv[i].args["origin"], "address").s
                \o "\"},\"destination\":{\"address\":\""
                \o GetProp(inv[i].args["destination"], "address").s \o "\"}}")
       /\ \E h \in DOMAIN inv[i].calls[1].headers :
            inv[i].calls[1].headers[h] = Fld("X-Goog-FieldMask", "*")

C10_Witness ==
  \E i \in DOMAIN inv :
    /\ inv[i].pc = "fetch"
    /\ inv[i].adapter = "get_route"
    /\ HasAddress(inv[i].args, "origin")
    /\ HasAddress(inv[i].args, "destination")
    /\ GetProp(inv[i].args["origin"], "extra") # Undef

\* C11: geocode_address called with only address issues a GET whose query
\* parameters are, in this order, address, language=en, region=en and key, the key
\* being the API key as a string, and no other parameter; the address "a b" is
\* written a+b
C11_GeocodeOnlyAddress ==
  \A i \in DOMAIN inv :
    (/\ inv[i].pc = "fetch"
     /\ inv[i].adapter = "geocode_address"
     /\ DOMAIN inv[i].args = {"address"})
    => /\ Len(inv[i].calls) = 1
       /\ inv[i].calls[1].method = "GET"
       /\ inv[i].calls[1].body = Undef
       /\ QueryParams(inv[i].calls[1].url) =
            <<Fld("address", ToStr(inv[i].args["address"])),
              Fld("language", "en"),
              Fld("region", "en"),
              Fld("key", ToStr(inv[i].apiKey))>>
       /\ inv[i].args["address"] = Str("a b")
          => inv[i].calls[1].url =
               "https://www.googleapis.com/maps/api/geocode/json"
               \o "?address=a+b&language=en&region=en&key=" \o ToStr(inv[i].apiKey)

C11_Witness ==
  \E i \in DOMAIN inv :
    /\ inv[i].pc = "fetch"
    /\ inv[i].adapter = "geocode_address"
    /\ inv[i].args = [p \in {"address"} |-> Str("a b")]
    /\ inv[i].apiKey = Str("K1")

\* the serialized JSON body of the request of invocation r has the key called name
BodyHasKey(r, name) == Contains(r.calls[1].body.s, "\"" \o name \o "\":")

\* the serialized JSON body of the request of invocation r has the key called name
\* with the value v
BodyHas(r, name, v) == Contains(r.calls[1].body.s, "\"" \o name \o "\":" \o Stringify(v))

\* the request of invocation r carries the argument called name with the value v:
\* as its only query parameter of that name, or as a key of its JSON body
Carries(r, name, v) ==
  IF r.calls[1].method = "GET" THEN SentValues(r, name) = {ToStr(v)}
  ELSE BodyHas(r, name, v)

C13_OmittedOptionalNotSent ==
  \A i \in DOMAIN inv :
    inv[i].pc = "fetch"
    => LET params == QueryParams(inv[i].calls[1].url)
       IN \A p \in OptionalNames(inv[i].adapter)
                     \ (DOMAIN inv[i].args \cup DeclaredDefaults(inv[i].adapter)) :
            /\ ValuesIn(params, p) = {}
            /\ inv[i].calls[1].method # "GET" => ~BodyHasKey(inv[i], p)

C13_Witness ==
  \E i \in DOMAIN inv :
    /\ inv[i].pc = "fetch"
    /\ inv[i].adapter = "text_search_places"
    /\ DOMAIN inv[i].args = {"textQuery"}
    /\ inv[i].calls[1].body = Str("{\"textQuery\":\"a b\"}")

\* C14: every request issued with a key set in the environment carries that key, as
\* the value of a query parameter named key or as the header X-Goog-Api-Key
C14_RequestCarriesKey ==
  \A i \in DOMAIN inv :
    (inv[i].pc = "fetch" /\ inv[i].apiKey.t = "string")
    => \/ SentValues(inv[i], "key") = {inv[i].apiKey.s}
       \/ \E h \in DOMAIN inv[i].calls[1].headers :
            inv[i].calls[1].headers[h] = Fld("X-Goog-Api-Key", inv[i].apiKey.s)

\* C15 as stated: every invocation issues exactly one HTTP call, whatever its
\* outcome
C15_ExactlyOneCall ==
  \A i \in DOMAIN inv : inv[i].pc # "idle" => Len(inv[i].calls) = 1

\* C15 amended: an invocation issues at most one HTTP call, and exactly one when
\* its arguments supply the required keys: none is added after a transport failure,
\* a non-2xx status, an unparseable body or a reply with a next-page token; only an
\* invocation that lacks a required key and fails while building its request
\* settles without a call
C15_AtMostOneCall ==
  \A i \in DOMAIN inv :
    inv[i].pc # "idle"
    => /\ Len(inv[i].calls) <= 1
       /\ RequiredNames(inv[i].adapter) \subseteq DOMAIN inv[i].args => Len(inv[i].calls) = 1
       /\ (inv[i].pc \in {"fetch", "body"} \/ inv[i].resp # NoResponse) => Len(inv[i].calls) = 1
       /\ inv[i].calls = <<>>
          => /\ inv[i].pc = "done"
             /\ inv[i].resp = NoResponse
             /\ inv[i].value.t \in {"error", "object"}

C15_Witness ==
  \E i \in DOMAIN inv :
    /\ inv[i].pc = "done"
    /\ inv[i].adapter = "get_hourly_weather"
    /\ Ok(inv[i].resp)
    /\ GetProp(inv[i].value, "nextPageToken") = Str("T")
    /\ Len(inv[i].calls) = 1

\* the adapters C16 names as GET with the arguments in the query string, and as
\* POST with the arguments in a JSON body
QueryTransportAdapters ==
  {"geocode_address", "get_directions", "get_elevation", "autocomplete_places",
   "query_autocomplete", "get_street_view", "get_street_view_metadata",
   "distance_matrix", "get_hourly_weather", "get_forecast"}
BodyTransportAdapters ==
  {"get_route", "get_route_matrix", "text_search_places", "validate_address",
   "provide_validation_feedback", "geolocate", "compute_insights_places_aggregate",
   "compute_insights_area", "render_video"}

\* the query parameter an argument is sent as: latitude and longitude are sent as
\* location.latitude and location.longitude
QueryName(p) == IF p \in {"latitude", "longitude"} THEN "location." \o p ELSE p

\* C16: whatever the arguments, the geocode, directions, elevation, autocomplete,
\* street view, distance matrix, weather history and pollen forecast adapters issue
\* GET without a body and with the supplied required arguments in the query string;
\* the routes, text search, address validation, geolocate, insights and video render
\* adapters issue POST with every supplied argument in a JSON body and none in the
\* query string
C16_TransportFixedPerAdapter ==
  \A i \in DOMAIN inv :
    inv[i].pc = "fetch"
    => /\ inv[i].adapter \in QueryTransportAdapters
          => /\ inv[i].calls[1].method = "GET"
             /\ inv[i].calls[1].body = Undef
             /\ \A p \in DOMAIN inv[i].args \cap RequiredNames(inv[i].adapter) :
                  SentValues(inv[i], QueryName(p)) = {ToStr(inv[i].args[p])}
       /\ inv[i].adapter \in BodyTransportAdapters
          => /\ inv[i].calls[1].method = "POST"
             /\ inv[i].calls[1].body.t = "string"
             /\ \A p \in DOMAIN inv[i].args :
                  BodyHasKey(inv[i], p) /\ SentValues(inv[i], p) = {}

C16_Witness ==
  \E i \in DOMAIN inv :
    /\ inv[i].pc = "fetch"
    /\ inv[i].adapter = "get_route_matrix"
    /\ "travelMode" \in DOMAIN inv[i].args
    /\ inv[i].calls[1].method = "POST"

\* an invocation that failed: its promise rejected, or no 2xx reply was read to the
\* end
Failed(r) == r.outcome = "rejected" \/ r.resp = NoResponse \/ ~Ok(r.resp) \/ r.data = Undef

\* C17: a failed invocation has written exactly one log line and a successful one
\* none, and no step of an invocation changes the API key of the environment or the
\* argument mapping of an invocation in flight
C17_OnlyLogLinesOnFailure ==
  /\ [](\A i \in DOMAIN inv :
          inv[i].pc = "done" => Len(inv[i].logs) = (IF Failed(inv[i]) THEN 1 ELSE 0))
  /\ [][\A i \in DOMAIN inv :
          /\ inv'[i] # inv[i] => env' = env
          /\ inv[i].pc \in {"fetch", "body"} => inv'[i].args = inv[i].args]_vars

\* the settled invocations that the invocation r, whose request has been issued,
\* can end in with the upstream reply resp (NoResponse for a transport failure);
\* the body read of a reply may fail
SettlesFrom(r, resp) ==
  LET a == r.adapter
      r1 == [r EXCEPT !.resp = resp]
      rd == ReadBody(a, resp.body)
      got == [r1 EXCEPT !.data = rd.val]
  IN IF resp = NoResponse THEN {CatchBlock(r1, Err("fetch failed"))}
     ELSE IF BodyReader(a) = "buffer" /\ ~Ok(resp) THEN {CatchBlock(r1, StatusError(a, resp))}
     ELSE {CatchBlock(r1, Err("terminated")),
           IF ~rd.ok THEN CatchBlock(r1, rd.val)
           ELSE IF ~Ok(resp) THEN CatchBlock(got, ErrorFromBody(a, rd.val))
           ELSE Returns(got, rd.val)}
          \cup (IF BodyReader(a) = "buffer"
                THEN {CatchBlock(r1, Err("response.buffer is not a function"))}
                ELSE {})

\* the settled invocations that adapter a can end in when it runs alone with the
\* arguments args, the API key key and the upstream reply resp
RunAlone(a, args, key, resp) ==
  LET plan == BuildRequest(a, args, key)
      r0 == [Idle EXCEPT !.adapter = a, !.args = args, !.apiKey = key]
  IN IF plan.thrown = "outside" THEN {Rejects(r0, plan.err)}
     ELSE IF plan.thrown = "inside" THEN {CatchBlock(r0, plan.err)}
     ELSE SettlesFrom([r0 EXCEPT !.pc = "fetch", !.calls = <<plan.req>>], resp)

\* C18: with two callers and every interleaving of their steps, the request of an
\* invocation is the one its adapter builds from its own arguments and the key read
\* at its start, and its settled result is one it can end in when it runs alone
\* with the same arguments, key and upstream reply
C18_ConcurrentAsAlone ==
  \A i \in DOMAIN inv :
    /\ inv[i].pc \in {"fetch", "body"}
       => inv[i].calls = <<BuildRequest(inv[i].adapter, inv[i].args, inv[i].apiKey).req>>
    /\ inv[i].pc = "done"
       => inv[i] \in RunAlone(inv[i].adapter, inv[i].args, inv[i].apiKey, inv[i].resp)

C18_Witness ==
  /\ inv[1].pc = "done"
  /\ inv[2].pc = "body"
  /\ inv[1].adapter = "get_directions"
  /\ inv[2].adapter = "get_directions"
  /\ inv[1].apiKey # inv[2].apiKey
  /\ Ok(inv[1].resp)
  /\ inv[1].data # Undef
  /\ ~Ok(inv[2].resp)

\* C19: two invocations of the same adapter with equal arguments and an equal API
\* key have issued identical requests (method, URL, headers, body), whatever
\* invocations and upstream replies came before either of them
C19_RequestDeterminedByArgsAndKey ==
  \A i, j \in DOMAIN inv :
    (/\ inv[i].calls # <<>>
     /\ inv[j].calls # <<>>
     /\ inv[i].adapter = inv[j].adapter
     /\ inv[i].args = inv[j].args
     /\ inv[i].apiKey = inv[j].apiKey)
    => inv[i].calls = inv[j].calls

C19_Witness ==
  /\ inv[1].pc = "done"
  /\ inv[2].pc = "fetch"
  /\ inv[1].adapter = "distance_matrix"
  /\ inv[2].adapter = "distance_matrix"
  /\ inv[1].args = inv[2].args
  /\ inv[1].apiKey = inv[2].apiKey
  /\ inv[1].resp # NoResponse
  /\ env # inv[2].apiKey

\* C20: when the fetch call and the body read settle, an invocation that waits for
\* one of them completes, and a completed invocation of a JSON-returning adapter
\* has resolved, to a payload or to an error envelope, while one of a binary
\* adapter has resolved to bytes or has rejected
C20_EventuallyCompletes ==
  /\ \A i \in {1} : (inv[i].pc \in {"fetch", "body"}) ~> (inv[i].pc = "done")
  /\ [](\A i \in DOMAIN inv :
          inv[i].pc = "done"
          => IF inv[i].adapter \in JsonAdapters
             THEN /\ inv[i].outcome = "resolved"
                  /\ inv[i].value = inv[i].data \/ IsErrorEnvelope(inv[i].value)
             ELSE \/ inv[i].outcome = "resolved" /\ inv[i].value.t = "buffer"
                  \/ inv[i].outcome = "rejected" /\ inv[i].value.t = "error")

\* C21 as stated: an invocation is suspended at one point only, so the step that
\* resumes a suspended invocation completes it
C21_SingleSuspensionPoint ==
  [][\A i \in DOMAIN inv :
       (inv[i].pc \in {"fetch", "body"} /\ inv'[i] # inv[i]) => inv'[i].pc = "done"]_vars

\* C21 amended: an invocation is suspended at up to two points, in this order: the
\* wait for the fetch call and the wait for the body read.  It starts by waiting
\* for fetch or settles at once; an answered fetch leads to the wait for the body,
\* except in a binary adapter, which may settle on the reply; a failed fetch and a
\* finished or failed body read settle the invocation
C21_TwoSuspensionPoints ==
  [][\A i \in DOMAIN inv :
       inv'[i] # inv[i]
       => CASE inv[i].pc = "idle" -> inv'[i].pc \in {"fetch", "done"}
            [] inv[i].pc = "fetch" ->
                 \/ inv'[i].pc = "body" /\ inv'[i].resp # NoResponse
                 \/ /\ inv'[i].pc = "done"
                    /\ inv'[i].resp = NoResponse \/ inv[i].adapter \in BinaryAdapters
            [] inv[i].pc = "body" -> inv'[i].pc = "done"
            [] OTHER -> inv'[i].pc = "idle"]_vars

C21_Witness ==
  /\ inv[1].pc = "body"
  /\ inv[1].adapter = "geocode_address"
  /\ inv[2].pc = "body"
  /\ inv[2].adapter = "get_street_view"
  /\ inv[1].apiKey # inv[2].apiKey

\* the optional parameters a GET adapter appends under a truthiness test
GuardedParams(a) ==
  CASE a = "geocode_address" -> {"bounds", "components", "latlng", "place_id"}
    [] a = "query_autocomplete" -> {"offset", "location", "radius"}
    [] a = "get_directions" ->
         {"departure_time", "arrival_time", "alternatives", "avoid", "waypoints", "region",
          "traffic_model"}
    [] a = "get_street_view" ->
         {"fov", "heading", "location", "pano", "pitch", "radius", "return_error_code",
          "signature", "source"}
    [] a = "get_place_photo" -> {"maxheight", "maxwidth"}
    [] a = "get_hourly_weather" -> {"pageToken"}
    [] a = "get_street_view_metadata" ->
         {"heading", "pano", "pitch", "radius", "return_error_code", "signature", "size",
          "source"}
    [] a = "get_place_details" -> {"languageCode", "regionCode", "sessionToken"}
    [] a = "get_elevation" -> {"path", "samples"}
    [] a = "distance_matrix" ->
         {"departure_time", "arrival_time", "avoid", "region", "traffic_model",
          "transit_mode", "transit_routing_preference"}
    [] a = "autocomplete_places" ->
         {"sessiontoken", "components", "strictbounds", "offset", "origin", "location",
          "radius", "types", "language", "region"}
    [] OTHER -> {}

\* the declared default of a guarded parameter, undefined where there is none
GuardedDefault(a, p) ==
  CASE a = "get_street_view" /\ p = "fov" -> Num(90)
    [] a \in {"get_street_view", "get_street_view_metadata"} /\ p = "radius" -> Num(50)
    [] a = "get_street_view" /\ p = "pitch" -> Num(0)
    [] a \in {"get_street_view", "get_street_view_metadata"} /\ p = "return_error_code" ->
         Bool(FALSE)
    [] a = "get_directions" /\ p = "alternatives" -> Bool(FALSE)
    [] a \in {"get_directions", "distance_matrix"} /\ p = "traffic_model" -> Str("best_guess")
    [] a \in {"distance_matrix", "autocomplete_places"} /\ p = "region" -> Str("en")
    [] a = "autocomplete_places" /\ p = "language" -> Str("en")
    [] OTHER -> Undef

\* the values JavaScript takes for false in a condition
FalsyValues == {Undef, Null, Num(0), Str(""), Bool(FALSE)}

\* C23: a parameter that a GET adapter appends under a truthiness test is in the
\* query string, with the effective value (the argument, or the default when the
\* argument is omitted), if and only if that value is truthy: a supplied 0, false
\* or empty string is left out
C23_GuardedParamSentIffTruthy ==
  \A i \in DOMAIN inv :
    inv[i].pc = "fetch"
    => LET params == QueryParams(inv[i].calls[1].url)
       IN \A p \in GuardedParams(inv[i].adapter) :
            LET effective == IF p \in DOMAIN inv[i].args THEN inv[i].args[p]
                             ELSE GuardedDefault(inv[i].adapter, p)
            IN ValuesIn(params, p) =
                 (IF effective \in FalsyValues THEN {} ELSE {ToStr(effective)})

C23_Witness ==
  \E i \in DOMAIN inv :
    /\ inv[i].pc = "fetch"
    /\ inv[i].adapter = "autocomplete_places"
    /\ "strictbounds" \in DOMAIN inv[i].args
    /\ inv[i].args["strictbounds"] = Bool(FALSE)
    /\ SentValues(inv[i], "strictbounds") = {}

\* the adapters C24 names as sending the key in the X-Goog-Api-Key header
HeaderKeyAdapters ==
  {"get_route", "get_route_matrix", "get_place_details", "text_search_places",
   "compute_insights_places_aggregate", "compute_insights_area"}

\* the request of invocation r has a header X-Goog-Api-Key
HasKeyHeader(r) ==
  \E h \in DOMAIN r.calls[1].headers : r.calls[1].headers[h].k = "X-Goog-Api-Key"

\* C24: with a key set, the request of get_route, get_route_matrix,
\* get_place_details, text_search_places and both compute_insights adapters has the
\* key as its X-Goog-Api-Key header and nowhere in its URL; the request of every
\* other adapter has key=<key> in the query string of its URL and no X-Goog-Api-Key
\* header
C24_KeyInOneLocation ==
  \A i \in DOMAIN inv :
    (inv[i].pc = "fetch" /\ inv[i].apiKey.t = "string")
    => IF inv[i].adapter \in HeaderKeyAdapters
       THEN /\ \E h \in DOMAIN inv[i].calls[1].headers :
                 inv[i].calls[1].headers[h] = Fld("X-Goog-Api-Key", inv[i].apiKey.s)
            /\ ~Contains(inv[i].calls[1].url, inv[i].apiKey.s)
            /\ ~Contains(inv[i].calls[1].url, "key=")
       ELSE /\ ~HasKeyHeader(inv[i])
            /\ Contains(QueryOf(inv[i].calls[1].url), "key=" \o inv[i].apiKey.s)

C24_Witness ==
  \E i \in DOMAIN inv :
    /\ inv[i].pc = "fetch"
    /\ inv[i].adapter = "get_place_details"
    /\ inv[i].apiKey = Str("K1")
    /\ "sessionToken" \in DOMAIN inv[i].args
    /\ Truthy(inv[i].args["sessionToken"])

\* C25: a declared default that is falsy is not transmitted: get_street_view
\* without pitch sends no pitch, without return_error_code sends no
\* return_error_code, and with only size sends exactly size, fov=90, radius=50 and
\* key; get_street_view_metadata without return_error_code and get_directions
\* without alternatives send no such parameter
C25_FalsyDefaultNotSent ==
  \A i \in DOMAIN inv :
    inv[i].pc = "fetch"
    => /\ inv[i].adapter = "get_street_view"
          => /\ "pitch" \notin DOMAIN inv[i].args => SentValues(inv[i], "pitch") = {}
             /\ "return_error_code" \notin DOMAIN inv[i].args
                => SentValues(inv[i], "return_error_code") = {}
             /\ DOMAIN inv[i].args = {"size"}
                => QueryParams(inv[i].calls[1].url) =
                     <<Fld("size", ToStr(inv[i].args["size"])),
                       Fld("fov", "90"),
                       Fld("radius", "50"),
                       Fld("key", ToStr(inv[i].apiKey))>>
       /\ (inv[i].adapter = "get_street_view_metadata"
           /\ "return_error_code" \notin DOMAIN inv[i].args)
          => SentValues(inv[i], "return_error_code") = {}
       /\ (inv[i].adapter = "get_directions" /\ "alternatives" \notin DOMAIN inv[i].args)
          => SentValues(inv[i], "alternatives") = {}

C25_Witness ==
  \E i \in DOMAIN inv :
    /\ inv[i].pc = "fetch"
    /\ inv[i].adapter = "get_street_view"
    /\ DOMAIN inv[i].args = {"size"}
    /\ inv[i].apiKey = Str("K1")
    /\ inv[i].calls[1].url =
         "https://www.googleapis.com/maps/api/streetview?size=a+b&fov=90&radius=50&key=K1"

\* the required arguments an adapter writes into the path of the URL
PathParams(a) ==
  CASE a = "get_heatmap_tiles" -> {"mapType", "zoom", "x", "y"}
    [] a = "get_place_details" -> {"placeId"}
    [] OTHER -> {}

\* the request of invocation r has the required argument called name as a field of
\* its own with the value v: a path segment (as the URL parser writes it), the only
\* query parameter of that name,
\* or a key of the JSON body (for get_route the {address} projection of the object)
ReachesAsOwnField(r, name, v) ==
  IF name \in PathParams(r.adapter)
  THEN Contains(BeforeQuery(r.calls[1].url) \o "/", "/" \o ParseUrl(ToStr(v)) \o "/")
  ELSE IF r.calls[1].method = "GET"
  THEN SentValues(r, QueryName(name)) = {ToStr(v)}
  ELSE IF r.adapter = "get_route"
  THEN BodyHas(r, name, Obj(<<Fld("address", GetProp(v, "address"))>>))
  ELSE BodyHas(r, name, v)

\* C26: each supplied required argument reaches the request as its own field with
\* exactly the supplied value, for every adapter; the request of get_video has a
\* videoId query parameter whose value is exactly the supplied videoId
C26_RequiredReachesAsOwnField ==
  \A i \in DOMAIN inv :
    inv[i].pc = "fetch"
    => \A p \in DOMAIN inv[i].args \cap RequiredNames(inv[i].adapter) :
         ReachesAsOwnField(inv[i], p, inv[i].args[p])

\* C27: an invocation whose request building fails before the HTTP call issues no
\* call, emits one log line and resolves to the error envelope; a call that has been
\* issued is the wholly built request
C27_BuildFailureIsEnvelopeWithoutCall ==
  \A i \in DOMAIN inv :
    LET plan == BuildRequest(inv[i].adapter, inv[i].args, inv[i].apiKey)
    IN inv[i].pc = "done"
       => /\ plan.thrown # "none"
             => /\ inv[i].calls = <<>>
                /\ Len(inv[i].logs) = 1
                /\ inv[i].outcome = "resolved"
                /\ IsErrorEnvelope(inv[i].value)
          /\ inv[i].calls # <<>>
             => /\ plan.thrown = "none"
                /\ inv[i].calls = <<plan.req>>

\* C28: an invocation reads the API key once, at its start: the key it holds is the
\* one the environment has when it starts and its request is built from that key;
\* no step taken while it is in flight (a change of the environment included)
\* alters its key, its arguments or its request; and the result it settles with is
\* one that follows from the request it issued and the reply, whatever the
\* environment holds by then
C28_KeyReadOnceAtStart ==
  [][\A i \in DOMAIN inv :
       /\ (inv[i].pc = "idle" /\ inv'[i].pc # "idle")
          => /\ inv'[i].apiKey = env
             /\ inv'[i] \in
                  IF inv'[i].pc = "fetch"
                  THEN {[Idle EXCEPT !.pc = "fetch",
                                     !.adapter = inv'[i].adapter,
                                     !.args = inv'[i].args,
                                     !.apiKey = env,
                                     !.calls = <<BuildRequest(inv'[i].adapter,
                                                              inv'[i].args, env).req>>]}
                  ELSE RunAlone(inv'[i].adapter, inv'[i].args, env, NoResponse)
       /\ inv[i].pc \in {"fetch", "body"}
          => /\ inv'[i].apiKey = inv[i].apiKey
             /\ inv'[i].calls = inv[i].calls
             /\ inv'[i].args = inv[i].args
             /\ inv'[i].pc = "done" => inv'[i] \in SettlesFrom(inv[i], inv'[i].resp)]_vars

C28_Witness ==
  \E i \in DOMAIN inv :
    /\ inv[i].pc = "body"
    /\ inv[i].adapter = "get_elevation"
    /\ inv[i].apiKey = Str("K1")
    /\ env = Undef
    /\ SentValues(inv[i], "key") = {"K1"}

\* C30: with no API key in the environment and the required arguments supplied, no
\* adapter fails early: the HTTP call is issued, exactly once; an adapter that puts
\* the key in the query sends the query parameter key=undefined, except
\* get_forecast, whose request has no key parameter
C30_AbsentKeyStillCalls ==
  \A i \in DOMAIN inv :
    (/\ inv[i].pc # "idle"
     /\ inv[i].apiKey = Undef
     /\ RequiredNames(inv[i].adapter) \subseteq DOMAIN inv[i].args)
    => /\ Len(inv[i].calls) = 1
       /\ inv[i].adapter \notin HeaderKeyAdapters
          => SentValues(inv[i], "key") =
               (IF inv[i].adapter = "get_forecast" THEN {} ELSE {"undefined"})

\* C22: after any sequence of invocations, successful or failed, the tool
\* definition of every adapter (name, description, parameter schema, required list)
\* is the one it had at load
C22_DefinitionsUnchanged == tools = Loaded

C22_Witness ==
  \E i \in DOMAIN inv :
    /\ inv[i].pc = "done"
    /\ inv[i].adapter = "geolocate"
    /\ inv[i].resp # NoResponse
    /\ IsErrorEnvelope(inv[i].value)
    /\ tools["geolocate"] = ToolDefinition("geolocate")
    /\ tools["geolocate"].required = {"cellTowers", "wifiAccessPoints"}

\* C29: the names of the tool definitions are pairwise distinct across the adapters
C29_ToolNamesDistinct ==
  \A a, b \in DOMAIN tools : a # b => tools[a].name # tools[b].name

====
